---- MODULE Spec2Model ----
(***************************************************************************)
(* Scoring-and-classification engine of 3DPoliticalTest (src/script.js).  *)
(*                                                                         *)
(* JavaScript numbers are modelled exactly as extended rationals <<n, d>>: *)
(* d > 0 is the reduced fraction n/d, <<1,0>> is +Infinity, <<-1,0>> is    *)
(* -Infinity and <<0,0>> is NaN.  JavaScript values that reach the engine  *)
(* from JSON are records [t, n, d, s] carrying their typeof tag.           *)
(***************************************************************************)
EXTENDS Integers, Sequences, FiniteSets, TLC

VARIABLES
    step,            \* state.step
    language,        \* state.language
    idx,             \* state.idx
    score,           \* state.x, state.y, state.z
    questions,       \* state.questions
    questionsByLang, \* state.questionsByLang
    weightTotals,    \* state.weightTotals
    answers,         \* state.answers
    resultSaved,     \* state.resultSaved
    dom,             \* what app.innerHTML shows and the closures of its handlers
    loads,           \* per language, the loadQuestions() calls whose fetch has not settled
    source,          \* which of Sources holds the questions_<lang>.json files behind fetch
    quadrantsPromise, \* quadrantsPromise: "null", "pending" or "settled"
    QUADRANT_DATA,   \* QUADRANT_DATA
    waiting,         \* a viewResult() call is suspended at `await ensureQuadrantsLoaded()`
    thrown,          \* TRUE once a handler or continuation ended in an uncaught exception
    name,            \* state.name
    reviews,         \* the array stored under localStorage 'reviews'
    reviewForm,      \* the review form: whether #submitReview is disabled, and the
                     \* messages of the submitReview() calls suspended at `await getUserIP()`
    gate,            \* the access gate: the closure variables of setupAccessGate and its form
    quadrantFetches, \* the fetches of quadrants.json issued so far
    resultHistory,   \* the array stored under localStorage 'results'
    profile,         \* state.profession and state.education
    filters,         \* state.filterProfession and state.filterEducation
    probe            \* the call under examination when a function is exercised on its own

vars == <<step, language, idx, score, questions, questionsByLang, weightTotals,
          answers, resultSaved, dom, loads, source, quadrantsPromise, QUADRANT_DATA,
          waiting, thrown, name, reviews, reviewForm, gate, quadrantFetches,
          resultHistory, profile, filters, probe>>

sessionVars == <<step, language, idx, questions, questionsByLang, weightTotals,
                 answers, resultSaved, dom, loads, source, quadrantsPromise, QUADRANT_DATA,
                 waiting, thrown, name, reviews, reviewForm, gate, quadrantFetches,
                 resultHistory, profile, filters>>

----------------------------------------------------------------------------
(* JavaScript numbers *)

Abs(i) == IF i < 0 THEN -i ELSE i

Sgn(i) == IF i < 0 THEN -1 ELSE IF i > 0 THEN 1 ELSE 0

RECURSIVE GCD(_, _)
GCD(a, b) == IF b = 0 THEN a ELSE GCD(b, a % b)

\* the reduced fraction n/d, d # 0
Q(n, d) ==
    LET g == GCD(Abs(n), Abs(d))
    IN  <<Sgn(d) * (n \div g), Abs(d) \div g>>

N(i) == <<i, 1>>

NaN == <<0, 0>>
PInf == <<1, 0>>
NInf == <<-1, 0>>

IsNaN(a) == a = NaN
IsFinite(a) == a[2] > 0
IsZero(a) == a[2] > 0 /\ a[1] = 0
SignOf(a) == Sgn(a[1])

JNeg(a) == <<-a[1], a[2]>>

JAbs(a) == <<Abs(a[1]), a[2]>>

JAdd(a, b) ==
    IF IsNaN(a) \/ IsNaN(b) THEN NaN
    ELSE IF ~IsFinite(a) /\ ~IsFinite(b) THEN (IF a = b THEN a ELSE NaN)
    ELSE IF ~IsFinite(a) THEN a
    ELSE IF ~IsFinite(b) THEN b
    ELSE Q(a[1] * b[2] + b[1] * a[2], a[2] * b[2])

JSub(a, b) == JAdd(a, JNeg(b))

JMul(a, b) ==
    IF IsNaN(a) \/ IsNaN(b) THEN NaN
    ELSE IF ~IsFinite(a) \/ ~IsFinite(b)
         THEN (IF IsZero(a) \/ IsZero(b) THEN NaN ELSE <<SignOf(a) * SignOf(b), 0>>)
    ELSE Q(a[1] * b[1], a[2] * b[2])

JDiv(a, b) ==
    IF IsNaN(a) \/ IsNaN(b) THEN NaN
    ELSE IF ~IsFinite(a) /\ ~IsFinite(b) THEN NaN
    ELSE IF ~IsFinite(a) THEN <<SignOf(a) * (IF SignOf(b) < 0 THEN -1 ELSE 1), 0>>
    ELSE IF ~IsFinite(b) THEN N(0)
    ELSE IF IsZero(b) THEN (IF IsZero(a) THEN NaN ELSE <<SignOf(a), 0>>)
    ELSE Q(a[1] * b[2], a[2] * b[1])

JLt(a, b) ==
    IF IsNaN(a) \/ IsNaN(b) THEN FALSE
    ELSE IF a = b THEN FALSE
    ELSE IF ~IsFinite(a) \/ ~IsFinite(b) THEN (a = NInf \/ b = PInf)
    ELSE a[1] * b[2] < b[1] * a[2]

JLe(a, b) == ~IsNaN(a) /\ ~IsNaN(b) /\ (a = b \/ JLt(a, b))

JGt(a, b) == JLt(b, a)

\* Math.min / Math.max of two numbers
MathMin(a, b) == IF IsNaN(a) \/ IsNaN(b) THEN NaN ELSE IF JLt(b, a) THEN b ELSE a
MathMax(a, b) == IF IsNaN(a) \/ IsNaN(b) THEN NaN ELSE IF JLt(a, b) THEN b ELSE a

\* the number is truthy: neither 0 nor NaN
NumTruthy(a) == ~IsNaN(a) /\ ~IsZero(a)

\* `a || 0` on a number
OrZero(a) == IF NumTruthy(a) THEN a ELSE N(0)

----------------------------------------------------------------------------
(* JavaScript values that arrive from JSON or from the DOM *)

JsUndefined == [t |-> "undefined", n |-> 0, d |-> 1, s |-> ""]
JsNull == [t |-> "null", n |-> 0, d |-> 1, s |-> ""]
JsNum(a) == [t |-> "number", n |-> a[1], d |-> a[2], s |-> ""]
JsStr(str) == [t |-> "string", n |-> 0, d |-> 1, s |-> str]
JsBool(b) == [t |-> "boolean", n |-> IF b THEN 1 ELSE 0, d |-> 1, s |-> ""]

NumOf(v) == <<v.n, v.d>>


\* typeof v
TypeOf(v) == IF v.t \in {"null", "array"} THEN "object" ELSE v.t

\* Number(s) for the strings that occur in the modelled data
StrToNum(str) ==
    CASE str = "" -> N(0)
      [] str = "0" -> N(0)
      [] str = "1" -> N(1)
      [] str = "-1" -> N(-1)
      [] str = "2" -> N(2)
      [] str = " 2 " -> N(2)
      [] str = "0.5" -> Q(1, 2)
      [] str = "-0.5" -> Q(-1, 2)
      [] str = "Infinity" -> PInf
      [] OTHER -> NaN

\* Number(v)
ToNumber(v) ==
    CASE v.t = "number" -> NumOf(v)
      [] v.t = "string" -> StrToNum(v.s)
      [] v.t = "boolean" -> N(v.n)
      [] v.t = "null" -> N(0)
      [] OTHER -> NaN

\* !v is false
Truthy(v) ==
    CASE v.t = "number" -> NumTruthy(NumOf(v))
      [] v.t = "string" -> v.s # ""
      [] v.t = "boolean" -> v.n = 1
      [] v.t \in {"undefined", "null"} -> FALSE
      [] OTHER -> TRUE

----------------------------------------------------------------------------
(* Static tables *)

AXES == <<"economia", "dirittocivilismo", "establishment">>

AxisSet == {AXES[i] : i \in 1..Len(AXES)}

ANSWER_VALUES == <<N(1), Q(1, 2), N(0), Q(-1, 2), N(-1)>>

\* the data-v attribute written for ANSWER_VALUES[i]: `${value}`
AnswerAttr == <<"1", "0.5", "0", "-0.5", "-1">>

\* the labels, with the middle dot of the source written as a slash
PHI_DESCRIPTORS == <<"Mercato aperto / Diritti civili",
                     "Mercato aperto / Ordine sociale",
                     "Intervento statale / Ordine sociale",
                     "Intervento statale / Diritti civili">>

THETA_DESCRIPTORS == <<"Allineamento forte con l'establishment",
                       "Moderatamente filo-establishment",
                       "Equilibrato ma critico",
                       "Marcatamente anti-establishment">>

\* 0xff595e, 0xff924c, ... as integers
QUADRANT_COLORS == <<16734558, 16749132, 16763450, 9095462,
                     5421960, 1671876, 6966419, 16766629,
                     16756141, 48121, 3835647, 3065014,
                     8599788, 16471559, 16758531, 28023>>

\* 0x2d6cdf
DefaultColor == 2976991

ZeroWeights == [a \in AxisSet |-> N(0)]

ZeroScore == [x |-> N(0), y |-> N(0), z |-> N(0)]

----------------------------------------------------------------------------
(* Question Normalizer *)

\* componentToAxis: the axis name, or "null"
componentToAxis(component) ==
    IF ~Truthy(component) THEN "null"
    ELSE IF component.t = "string" /\ component.s = "autoritarismo" THEN "dirittocivilismo"
    ELSE IF component.t = "string" /\ component.s \in AxisSet THEN component.s
    ELSE "null"

\* question.weights && typeof question.weights === 'object'
HasProvidedWeights(question) ==
    Truthy(question.weights) /\ TypeOf(question.weights) = "object"

\* the value given to an axis before scaling (the body of the first forEach)
PreScaleWeight(question, axis) ==
    IF HasProvidedWeights(question) /\ question.weights[axis].t # "undefined"
    THEN OrZero(ToNumber(question.weights[axis]))
    ELSE IF componentToAxis(question.component) = axis THEN N(1) ELSE N(0)

\* AXES.reduce((acc, axis) => acc + Math.abs(w[axis]), 0)
WeightSum(w) ==
    JAdd(JAdd(JAdd(N(0), JAbs(w[AXES[1]])), JAbs(w[AXES[2]])), JAbs(w[AXES[3]]))

\* the weights after the optional division by weightSum
ScaleWeights(w) ==
    LET weightSum == WeightSum(w)
    IN  IF JGt(weightSum, N(0))
        THEN [a \in AxisSet |-> JDiv(w[a], weightSum)]
        ELSE w

\* normalizeQuestionEntry with the guard reduced to the typeof test: null passes it
\* and reading null.weights is a TypeError
normalizeQuestionEntryTypeofOnly(question) ==
    IF TypeOf(question) # "object"
    THEN [t |-> "object", exc |-> FALSE, title |-> JsStr(""), weights |-> ZeroWeights]
    ELSE IF question.t = "null"
    THEN [t |-> "object", exc |-> TRUE, title |-> JsUndefined, weights |-> ZeroWeights]
    ELSE [t |-> "object", exc |-> FALSE,
          title |-> question.title,
          weights |-> ScaleWeights([a \in AxisSet |-> PreScaleWeight(question, a)])]

\* normalizeQuestionEntry: exc is TRUE when the call ends in a TypeError
normalizeQuestionEntry(question) ==
    IF ~Truthy(question) \/ TypeOf(question) # "object"
    THEN [t |-> "object", exc |-> FALSE, title |-> JsStr(""), weights |-> ZeroWeights]
    ELSE [t |-> "object", exc |-> FALSE,
          title |-> question.title,
          weights |-> ScaleWeights([a \in AxisSet |-> PreScaleWeight(question, a)])]

\* computeWeightTotals
RECURSIVE computeWeightTotals(_)
computeWeightTotals(qs) ==
    IF qs = << >> THEN ZeroWeights
    ELSE LET acc == computeWeightTotals(SubSeq(qs, 1, Len(qs) - 1))
             question == qs[Len(qs)]
         IN  [a \in AxisSet |-> JAdd(acc[a], JAbs(OrZero(question.weights[a])))]

----------------------------------------------------------------------------
(* Normalizer / Scorer *)

\* normalize with Math.min(1, value) left out
NormalizeAxisNoMin(s, total) ==
    LET denom == OrZero(ToNumber(total))
    IN  IF ~NumTruthy(denom)
        THEN [value |-> N(0), divided |-> FALSE]
        ELSE [value |-> MathMax(N(-1), JDiv(s, denom)), divided |-> TRUE]

\* normalize with the `if (!denom) return 0` line left out
NormalizeAxisNoGuard(s, total) ==
    LET denom == OrZero(ToNumber(total))
    IN  [value |-> MathMax(N(-1), MathMin(N(1), JDiv(s, denom))), divided |-> TRUE]

\* the inner `normalize` of getNormalizedScores; total is totals[axis] as a
\* JavaScript value; divided records whether score / denom was evaluated
NormalizeAxis(s, total) ==
    LET denom == OrZero(ToNumber(total))
    IN  IF ~NumTruthy(denom)
        THEN [value |-> N(0), divided |-> FALSE]
        ELSE [value |-> MathMax(N(-1), MathMin(N(1), JDiv(s, denom))), divided |-> TRUE]

\* getNormalizedScores on a score vector and a totals object of JavaScript values
NormalizedOf(sc, totals) ==
    [x |-> NormalizeAxis(sc.x, totals["economia"]).value,
     y |-> NormalizeAxis(sc.y, totals["dirittocivilismo"]).value,
     z |-> NormalizeAxis(sc.z, totals["establishment"]).value]

----------------------------------------------------------------------------
(* Score Accumulator *)

\* what state.questions[i] reads when i is not an index of the array
NoQuestion == [t |-> "undefined", exc |-> FALSE, title |-> JsUndefined, weights |-> ZeroWeights]

\* applyScore adding the magnitude of the answer on the economy axis
applyScoreMagnitude(sc, question, value) ==
    IF question.t = "undefined" THEN sc ELSE
    [x |-> JAdd(sc.x, JMul(OrZero(question.weights["economia"]), JAbs(value))),
     y |-> JAdd(sc.y, JMul(OrZero(question.weights["dirittocivilismo"]), value)),
     z |-> JAdd(sc.z, JMul(OrZero(question.weights["establishment"]), value))]

\* applyScore(question, value) on the score vector sc
applyScore(sc, question, value) ==
    IF question.t = "undefined" THEN sc ELSE
    [x |-> JAdd(sc.x, JMul(OrZero(question.weights["economia"]), value)),
     y |-> JAdd(sc.y, JMul(OrZero(question.weights["dirittocivilismo"]), value)),
     z |-> JAdd(sc.z, JMul(OrZero(question.weights["establishment"]), value))]

----------------------------------------------------------------------------
(* Spherical Classifier *)

\* The sector computations below are carried out in exact real arithmetic on
\* rational inputs: floor(phi / (2 pi) * 4) and floor(theta / pi * 4) are
\* decided by sign and squared-length comparisons instead of atan2 and acos.

\* x * x + y * y + z * z
SquaredLength(x, y, z) == JAdd(JAdd(JMul(x, x), JMul(y, y)), JMul(z, z))

\* Math.floor((phi / (2 * Math.PI)) * 4) with phi = atan2(y, x), plus 2 pi when negative
PhiSectorRaw(x, y) ==
    IF SignOf(y) = 0 THEN (IF SignOf(x) >= 0 THEN 0 ELSE 2)
    ELSE IF SignOf(y) > 0 THEN (IF SignOf(x) > 0 THEN 0 ELSE 1)
    ELSE (IF SignOf(x) < 0 THEN 2 ELSE 3)

\* theta = acos(z / (r || 1)): the zero vector gets theta = pi / 2
ThetaSectorRawUnitRadius(x, y, z) ==
    LET s2 == SquaredLength(x, y, z)
        zz2 == JMul(N(2), JMul(z, z))
    IN  IF IsZero(s2) THEN 2
        ELSE IF SignOf(z) > 0 THEN (IF JGt(zz2, s2) THEN 0 ELSE 1)
        ELSE IF JLt(zz2, s2) THEN 2
        ELSE IF IsZero(x) /\ IsZero(y) THEN 4
        ELSE 3

\* Math.floor((theta / Math.PI) * 4) with theta = r ? acos(z / r) : 0
ThetaSectorRaw(x, y, z) ==
    LET s2 == SquaredLength(x, y, z)
        zz2 == JMul(N(2), JMul(z, z))
    IN  IF IsZero(s2) THEN 0
        ELSE IF SignOf(z) > 0 THEN (IF JGt(zz2, s2) THEN 0 ELSE 1)
        ELSE IF JLt(zz2, s2) THEN 2
        ELSE IF IsZero(x) /\ IsZero(y) THEN 4
        ELSE 3

\* list[Math.min(i, list.length - 1)] for a 0-based i; "undefined" outside the list
AtMin(list, i) ==
    LET k == IF i < Len(list) - 1 THEN i ELSE Len(list) - 1
    IN  IF k >= 0 THEN [def |-> TRUE, val |-> list[k + 1]] ELSE [def |-> FALSE, val |-> list[1]]

descriptorFromSectors(phiSector, thetaSector) ==
    LET p == AtMin(PHI_DESCRIPTORS, phiSector)
        t == AtMin(THETA_DESCRIPTORS, thetaSector)
    IN  (IF p.def THEN p.val ELSE "") \o " / " \o (IF t.def THEN t.val ELSE "")

\* colorFromIndex(index).hex
colorFromIndex(index) ==
    LET c == AtMin(QUADRANT_COLORS, index)
    IN  IF c.def /\ c.val # 0 THEN c.val ELSE DefaultColor

\* the sector left as floor() gave it
ClampSectorOff(sector) == sector

\* if (sector > 3) sector = 3
ClampSector(sector) == IF sector > 3 THEN 3 ELSE sector

\* the object of quadrantFromVector with index = thetaSector * 4 + phiSector
QuadrantOfSectorsTransposed(phiSector, thetaSector) ==
    [index |-> thetaSector * 4 + phiSector,
     phiSector |-> phiSector,
     thetaSector |-> thetaSector,
     descriptor |-> descriptorFromSectors(phiSector, thetaSector),
     color |-> colorFromIndex(thetaSector * 4 + phiSector)]

\* the object quadrantFromVector returns, from its two clamped sectors
QuadrantOfSectors(phiSector, thetaSector) ==
    [index |-> phiSector * 4 + thetaSector,
     phiSector |-> phiSector,
     thetaSector |-> thetaSector,
     descriptor |-> descriptorFromSectors(phiSector, thetaSector),
     color |-> colorFromIndex(phiSector * 4 + thetaSector)]

quadrantFromVector(x, y, z) ==
    QuadrantOfSectors(ClampSector(PhiSectorRaw(x, y)), ClampSector(ThetaSectorRaw(x, y, z)))

----------------------------------------------------------------------------
(* Quadrant Metadata Resolver *)

\* An entry of the dataset is [t, id, name, content, affiliazionepolitica, bounds];
\* entry.bounds is [t, x, y, z] and an axis range is [isArray, length, min, max]
\* with min = range[0] and max = range[1].

\* str.trim() for the strings that occur in the modelled data
StrTrim(str) ==
    CASE str = " 2 " -> "2"
      [] str = " " -> ""
      [] str = " Mellon " -> "Mellon"
      [] OTHER -> str

\* str.toLowerCase() for the strings that occur in the modelled data
ToLowerCase(str) ==
    CASE str = "Ada" -> "ada"
      [] str = "Bob" -> "bob"
      [] str = "Medico" -> "medico"
      [] str = "Mellon" -> "mellon"
      [] str = "MELLON" -> "mellon"
      [] OTHER -> str

\* Number.isFinite(v)
NumberIsFinite(v) == v.t = "number" /\ IsFinite(NumOf(v))

parseNumericQuadrantId(id) ==
    IF NumberIsFinite(id) THEN id
    ELSE IF id.t = "string" /\ StrTrim(id.s) # "" /\ IsFinite(StrToNum(StrTrim(id.s)))
         THEN JsNum(StrToNum(StrTrim(id.s)))
         ELSE JsNull

\* the range bounds taken through Number() before the finiteness test
rangeIncludesCoerced(value, range) ==
    IF ~range.isArray \/ range.length < 2 THEN TRUE
    ELSE LET val == ToNumber(value)
             min == ToNumber(range.min)
             max == ToNumber(range.max)
         IN  IF ~IsFinite(val) \/ ~IsFinite(min) \/ ~IsFinite(max) THEN FALSE
             ELSE JLe(MathMin(min, max), val) /\ JLe(val, MathMax(min, max))

rangeIncludes(value, range) ==
    IF ~range.isArray \/ range.length < 2 THEN TRUE
    ELSE LET val == ToNumber(value)
         IN  IF ~IsFinite(val) THEN FALSE
             ELSE IF ~NumberIsFinite(range.min) \/ ~NumberIsFinite(range.max) THEN FALSE
             ELSE LET lower == MathMin(NumOf(range.min), NumOf(range.max))
                      upper == MathMax(NumOf(range.min), NumOf(range.max))
                  IN  JLe(lower, val) /\ JLe(val, upper)

NoRange == [isArray |-> FALSE, length |-> 0, min |-> JsUndefined, max |-> JsUndefined]

\* the object literal {} read as a bounds object
EmptyBounds == [t |-> "object", x |-> NoRange, y |-> NoRange, z |-> NoRange]

\* entry.bounds || {}
BoundsOrEmpty(entry) == IF Truthy(entry.bounds) THEN entry.bounds ELSE EmptyBounds

\* center[axis] of getBoundsCenter: NaN stands for a property that was not set
CenterOfRange(range) ==
    IF range.isArray /\ range.length >= 2 /\ NumberIsFinite(range.min) /\ NumberIsFinite(range.max)
    THEN JDiv(JAdd(NumOf(range.min), NumOf(range.max)), N(2))
    ELSE NaN

\* `return count ? center : null` of getBoundsCenter
CenterOrNull(center) ==
    IF IsFinite(center.x) \/ IsFinite(center.y) \/ IsFinite(center.z)
    THEN center
    ELSE [center EXCEPT !.t = "null"]

getBoundsCenter(bounds) ==
    IF ~Truthy(bounds) \/ TypeOf(bounds) # "object" THEN [t |-> "null", x |-> NaN, y |-> NaN, z |-> NaN]
    ELSE CenterOrNull([t |-> "object", x |-> CenterOfRange(bounds.x),
                       y |-> CenterOfRange(bounds.y), z |-> CenterOfRange(bounds.z)])

\* diff * diff
Square(diff) == JMul(diff, diff)

\* the contribution of one axis to distanceSquared: [total, count]
AxisDistance(a, b) ==
    IF IsFinite(a) /\ IsFinite(b)
    THEN [total |-> Square(JSub(a, b)), count |-> 1]
    ELSE [total |-> N(0), count |-> 0]

\* `return count ? total : Infinity` of distanceSquared, from the three axes
TotalOrInfinity(dx, dy, dz) ==
    IF dx.count + dy.count + dz.count > 0
    THEN JAdd(JAdd(dx.total, dy.total), dz.total)
    ELSE PInf

distanceSquared(point, center) ==
    IF ~Truthy(point) \/ center.t = "null" THEN PInf
    ELSE TotalOrInfinity(AxisDistance(ToNumber(point.x), center.x),
                         AxisDistance(ToNumber(point.y), center.y),
                         AxisDistance(ToNumber(point.z), center.z))

\* the callback of QUADRANT_DATA.find
IdMatches(entry, numericIndex) ==
    /\ Truthy(entry)
    /\ LET numericId == parseNumericQuadrantId(entry.id)
       IN  NumberIsFinite(numericId) /\ NumOf(numericId) = JAdd(numericIndex, N(1))

\* the callback of QUADRANT_DATA.filter
IsCandidate(entry, vectorData) ==
    /\ Truthy(entry)
    /\ TypeOf(entry) = "object"
    /\ LET bounds == BoundsOrEmpty(entry)
       IN  /\ rangeIncludes(vectorData.x, bounds.x)
           /\ rangeIncludes(vectorData.y, bounds.y)
           /\ rangeIncludes(vectorData.z, bounds.z)

\* the positions (1-based) of the entries of data that satisfy keep, in order
RECURSIVE Positions(_, _, _)
Positions(data, keep, k) ==
    IF k > Len(data) THEN << >>
    ELSE (IF keep[k] THEN <<k>> ELSE << >>) \o Positions(data, keep, k + 1)

\* `if (dist < bestDistance) { best = entry; bestDistance = dist; }`
Closer(candidate, dist, acc) ==
    IF JLt(dist, acc.bestDistance) THEN [best |-> candidate, bestDistance |-> dist] ELSE acc

\* the forEach over the candidates: best after candidates[i..], from the
\* best and bestDistance in acc
RECURSIVE ClosestFrom(_, _, _, _, _)
ClosestFrom(data, candidates, vectorData, i, acc) ==
    IF i > Len(candidates) THEN acc.best
    ELSE ClosestFrom(data, candidates, vectorData, i + 1,
                     Closer(candidates[i],
                            distanceSquared(vectorData,
                                            getBoundsCenter(BoundsOrEmpty(data[candidates[i]]))),
                            acc))

\* what getQuadrantDetails returns: null, or the entry at position pos (1-based)
NoDetails == [t |-> "null", pos |-> 0]
DetailsAt(k) == [t |-> "object", pos |-> k]

\* QUADRANT_DATA[0] || null, the slot of the index never read
PositionalFallbackFirstOnly(data, index) ==
    IF Truthy(data[1]) THEN DetailsAt(1) ELSE NoDetails

\* QUADRANT_DATA[numericIndex] || null, the first slot never read
PositionalFallbackNoFirst(data, index) ==
    IF index >= 0 /\ index < Len(data) /\ Truthy(data[index + 1]) THEN DetailsAt(index + 1)
    ELSE NoDetails

\* QUADRANT_DATA[numericIndex] if truthy, else QUADRANT_DATA[0] || null
PositionalFallback(data, index) ==
    IF index >= 0 /\ index < Len(data) /\ Truthy(data[index + 1]) THEN DetailsAt(index + 1)
    ELSE IF Truthy(data[1]) THEN DetailsAt(1)
    ELSE NoDetails

\* the one candidate, the closest of several, or none chosen (0)
OfCandidates(data, vector, candidates) ==
    IF Len(candidates) = 1 THEN candidates[1]
    ELSE IF Len(candidates) > 1
         THEN ClosestFrom(data, candidates, vector, 1, [best |-> 0, bestDistance |-> PInf])
         ELSE 0

\* the bounds branch: the position chosen among the candidates, or 0
BoundsMatch(data, vector) ==
    IF ~(Truthy(vector) /\ TypeOf(vector) = "object") THEN 0
    ELSE OfCandidates(data, vector,
                      Positions(data, [k \in 1..Len(data) |-> IsCandidate(data[k], vector)], 1))

\* the first (0 for none) of the positions in matches
FirstOf(matches) == IF matches = {} THEN 0 ELSE CHOOSE k \in matches : \A j \in matches : k <= j

\* getQuadrantDetails after the id search: byId is what find gave (0 for none)
\* and byBounds what the bounds branch chose (0 for none)
DetailsOf(data, index, byId, byBounds) ==
    IF byId # 0 THEN DetailsAt(byId)
    ELSE IF byBounds # 0 THEN DetailsAt(byBounds)
    ELSE PositionalFallback(data, index)

\* the id search matching index instead of index + 1
getQuadrantDetailsZeroBasedId(data, index, vector) ==
    IF data = << >> THEN NoDetails
    ELSE DetailsOf(data, index,
                   FirstOf({k \in 1..Len(data) : IdMatches(data[k], N(index - 1))}),
                   BoundsMatch(data, vector))

getQuadrantDetails(data, index, vector) ==
    IF data = << >> THEN NoDetails
    ELSE DetailsOf(data, index,
                   FirstOf({k \in 1..Len(data) : IdMatches(data[k], N(index))}),
                   BoundsMatch(data, vector))

\* one record of the legend
LegendRecord(number, entryName, descriptor, bounds, affiliation, color) ==
    [number |-> number, name |-> entryName, descriptor |-> descriptor, bounds |-> bounds,
     affiliation |-> affiliation, color |-> color]

NoBounds == [t |-> "undefined", x |-> NoRange, y |-> NoRange, z |-> NoRange]

\* BASE_QUADRANT_LEGEND with the two sector expressions exchanged
BaseLegendSectorsSwapped ==
    [k \in 1..16 |->
        LegendRecord(JsNum(N(k)), JsUndefined,
                     JsStr(descriptorFromSectors((k - 1) % 4, (k - 1) \div 4)),
                     NoBounds, JsUndefined, colorFromIndex(k - 1))]

BASE_QUADRANT_LEGEND ==
    [k \in 1..16 |->
        LegendRecord(JsNum(N(k)), JsUndefined,
                     JsStr(descriptorFromSectors((k - 1) \div 4, (k - 1) % 4)),
                     NoBounds, JsUndefined, colorFromIndex(k - 1))]

\* entry?.id ?? idx + 1
LegendNumber(entry, k) ==
    IF entry.t \in {"null", "undefined"} \/ entry.id.t \in {"null", "undefined"}
    THEN JsNum(N(k))
    ELSE entry.id

getQuadrantLegend(data) ==
    IF data = << >> THEN BASE_QUADRANT_LEGEND
    ELSE [k \in 1..Len(data) |->
            LegendRecord(LegendNumber(data[k], k), data[k].name, data[k].content,
                         data[k].bounds, data[k].affiliazionepolitica,
                         colorFromIndex((k - 1) % Len(QUADRANT_COLORS)))]

----------------------------------------------------------------------------
(* Bounded input data *)

\* largest magnitude of an integer weight in a question record
MaxWeight == 2

\* largest magnitude of a coordinate handed to the classifier
MaxCoord == 5

\* scores and totals handed to the scorer are multiples of 1/2 up to MaxHalves/2
MaxHalves == 5

JsObject == [t |-> "object", n |-> 0, d |-> 1, s |-> ""]
JsArray == [t |-> "array", n |-> 0, d |-> 1, s |-> ""]

\* a value of question.weights: the value itself plus what weights[axis] reads
WeightsValue(v, e, dc, es) ==
    [t |-> v.t, n |-> v.n, d |-> v.d, s |-> v.s,
     economia |-> e, dirittocivilismo |-> dc, establishment |-> es]

NoAxes(v) == WeightsValue(v, JsUndefined, JsUndefined, JsUndefined)

\* an element of the questions array: the value itself plus what its properties read
QuestionValue(v, title, weights, component) ==
    [t |-> v.t, n |-> v.n, d |-> v.d, s |-> v.s,
     title |-> title, weights |-> weights, component |-> component]

NoProps(v) == QuestionValue(v, JsUndefined, NoAxes(JsUndefined), JsUndefined)

WeightScalars ==
    {JsNum(N(i)) : i \in -MaxWeight..MaxWeight}
    \cup {JsUndefined, JsNull, JsStr("2"), JsStr("abc"), JsStr("Infinity")}

ComponentValues ==
    {JsUndefined, JsStr("economia"), JsStr("autoritarismo"), JsStr("dirittocivilismo"),
     JsStr("establishment"), JsStr("sinistra")}

WeightsValues ==
    {WeightsValue(JsObject, e, dc, es) : e \in WeightScalars, dc \in WeightScalars, es \in WeightScalars}
    \cup {NoAxes(v) : v \in {JsUndefined, JsNull, JsStr("pesi"), JsNum(N(1)), JsArray}}

\* question records that are objects
ObjectQuestions ==
    {QuestionValue(JsObject, JsStr("Q"), w, c) : w \in WeightsValues, c \in ComponentValues}

\* array elements that are not objects
\* question records with a weights object and no component tag
WeightedQuestions ==
    {q \in ObjectQuestions : q.weights.t = "object" /\ q.component = JsUndefined}

NonObjectQuestions ==
    {NoProps(v) : v \in {JsNull, JsUndefined, JsNum(N(0)), JsNum(N(7)), JsNum(NaN), JsStr(""), JsStr("domanda"),
                         JsBool(TRUE), JsBool(FALSE)}}

Coords == {N(i) : i \in -MaxCoord..MaxCoord}

Halves == {Q(i, 2) : i \in -MaxHalves..MaxHalves}

TotalValues ==
    {JsNum(h) : h \in Halves} \cup {JsUndefined, JsNull, JsStr("abc"), JsStr(""), JsNum(NaN)}

ScoreSamples == {[x |-> a, y |-> b, z |-> Q(3, 4)] : a \in {N(0), Q(1, 2)}, b \in {N(0), N(-1)}}

\* the longest quadrant dataset
MaxEntries == 3

\* the largest quadrant index handed to the resolver
MaxIndex == 2

Range(min, max) == [isArray |-> TRUE, length |-> 2, min |-> min, max |-> max]

Bounds(x, y, z) == [t |-> "object", x |-> x, y |-> y, z |-> z]

Entry(id, content, bounds) ==
    [t |-> "object", id |-> id, name |-> JsStr("Nome"), content |-> content,
     affiliazionepolitica |-> JsStr("Partito"), bounds |-> bounds]

\* a null element of the dataset, with what its optional-chained properties read
NullEntry ==
    [t |-> "null", id |-> JsUndefined, name |-> JsUndefined, content |-> JsUndefined,
     affiliazionepolitica |-> JsUndefined, bounds |-> NoBounds]

EntryIds == {JsUndefined, JsNum(N(1)), JsStr(" 2 "), JsStr("abc"), JsBool(TRUE)}

\* bounds whose declared ranges hold finite numbers
NumericBounds ==
    {NoBounds,
     Bounds(Range(JsNum(N(-1)), JsNum(N(0))), Range(JsNum(N(-1)), JsNum(N(0))), NoRange),
     Bounds(Range(JsNum(N(1)), JsNum(N(0))), Range(JsNum(N(-1)), JsNum(N(1))), NoRange)}

\* bounds with a declared range holding a numeric string or a non-finite number
NonNumericBounds ==
    {Bounds(Range(JsStr("0"), JsStr("1")), NoRange, NoRange),
     Bounds(NoRange, Range(JsNum(N(-1)), JsNum(PInf)), NoRange)}

EntryValues ==
    {Entry(id, JsStr("Testo"), b) : id \in EntryIds, b \in NumericBounds}
    \cup {Entry(JsUndefined, JsStr("Testo"), b) : b \in NonNumericBounds}
    \cup {NullEntry}

Datasets == UNION {[1..n -> EntryValues] : n \in 0..MaxEntries}

\* the longest dataset that is longer than the palette
MaxLegend == 17

\* datasets with more entries than the palette has colours
LongDatasets ==
    {[k \in 1..n |-> Entry(JsUndefined, JsStr("Testo"), NoBounds)] :
        n \in (Len(QUADRANT_COLORS) + 1)..MaxLegend}

\* the largest magnitude of an index handed to the palette lookup
MaxPaletteIndex == 17

\* what the fetch of quadrants.json delivers
QuadrantFile(ok, isArray, items) == [ok |-> ok, isArray |-> isArray, items |-> items]

QuadrantFiles ==
    {QuadrantFile(TRUE, TRUE, data) : data \in Datasets}
    \cup {QuadrantFile(TRUE, FALSE, << >>), QuadrantFile(FALSE, FALSE, << >>)}

Vector(x, y, z) == [t |-> "object", x |-> JsNum(x), y |-> JsNum(y), z |-> JsNum(z)]

\* getQuadrantDetails(index) called without a coordinate
NoVector == [t |-> "undefined", x |-> JsUndefined, y |-> JsUndefined, z |-> JsUndefined]

Vectors == {NoVector, Vector(N(0), N(0), N(0)), Vector(N(0), N(-1), N(0)), Vector(N(1), N(0), N(0))}

----------------------------------------------------------------------------
(* The engine's functions exercised one call at a time *)

Idle == [fn |-> "idle", arg |-> << >>, out |-> << >>]

\* the review form as rendered: enabled, no submission under way
NoReviewForm == [disabled |-> FALSE, pending |-> << >>]

\* the gate as setupAccessGate leaves it: present tells whether its elements
\* are in the page, attempts and unlocked are its closure variables, disabled
\* is button.disabled and input.disabled, started counts the calls of
\* onSuccess and submitted is the last input.value that verify() read
GateShown == [present |-> TRUE, attempts |-> 0, unlocked |-> FALSE, disabled |-> FALSE,
              started |-> 0, submitted |-> ""]

\* the page lacks an element of the gate: onSuccess is called at once and no
\* handler is attached
GateAbsent == [present |-> FALSE, attempts |-> 0, unlocked |-> FALSE, disabled |-> FALSE,
               started |-> 1, submitted |-> ""]

\* the gate once the magic word has been given at the first attempt
GateOpened == [present |-> TRUE, attempts |-> 0, unlocked |-> TRUE, disabled |-> FALSE,
               started |-> 1, submitted |-> "mellon"]

\* localStorage 'results'; the specifications that do not examine the history
\* leave it untracked and empty
NoHistory == [tracked |-> FALSE, records |-> << >>]

\* state.profession and state.education before the profile form is confirmed
NoProfile == [profession |-> "", education |-> ""]

\* state.filterProfession and state.filterEducation as initialised and reset
AllFilters == [profession |-> "all", education |-> "all"]

ProbeNormalizeQuestion ==
    /\ probe.fn = "idle"
    /\ \E question \in ObjectQuestions \cup NonObjectQuestions :
         probe' = [fn |-> "normalizeQuestionEntry", arg |-> question,
                   out |-> [res |-> normalizeQuestionEntry(question),
                            pre |-> [a \in AxisSet |-> PreScaleWeight(question, a)]]]
    /\ UNCHANGED <<sessionVars, score>>

ProbeNormalizeAxis ==
    /\ probe.fn = "idle"
    /\ \E s \in Halves, total \in TotalValues :
         probe' = [fn |-> "normalize", arg |-> [score |-> s, total |-> total],
                   out |-> NormalizeAxis(s, total)]
    /\ UNCHANGED <<sessionVars, score>>

ProbeQuadrant ==
    /\ probe.fn = "idle"
    /\ \E x \in Coords, y \in Coords, z \in Coords :
         probe' = [fn |-> "quadrantFromVector", arg |-> [x |-> x, y |-> y, z |-> z],
                   out |-> quadrantFromVector(x, y, z)]
    /\ UNCHANGED <<sessionVars, score>>

\* colorFromIndex(index)
ProbeColor ==
    /\ probe.fn = "idle"
    /\ \E index \in (-MaxPaletteIndex)..MaxPaletteIndex :
         probe' = [fn |-> "colorFromIndex", arg |-> [index |-> index],
                   out |-> colorFromIndex(index)]
    /\ UNCHANGED <<sessionVars, score>>

\* getQuadrantLegend() with QUADRANT_DATA a dataset longer than the palette
ProbeLongLegend ==
    /\ probe.fn = "idle"
    /\ \E data \in LongDatasets :
         probe' = [fn |-> "getQuadrantLegend", arg |-> [data |-> data],
                   out |-> getQuadrantLegend(data)]
    /\ UNCHANGED <<sessionVars, score>>

\* applyScore(q, v) on the running score
ProbeApply ==
    /\ probe.fn = "idle"
    /\ \E raw \in WeightedQuestions, i \in 1..Len(ANSWER_VALUES) :
         LET q == normalizeQuestionEntry(raw)
             v == StrToNum(AnswerAttr[i])
         IN  /\ score' = applyScore(score, q, v)
             /\ probe' = [fn |-> "applyScore", arg |-> [q |-> q, v |-> v, before |-> score],
                          out |-> "applied"]
    /\ UNCHANGED sessionVars

\* applyScore(q, -v) right after applyScore(q, v)
ProbeRevert ==
    /\ probe.fn = "applyScore"
    /\ probe.out = "applied"
    /\ score' = applyScore(score, probe.arg.q, JNeg(probe.arg.v))
    /\ probe' = [probe EXCEPT !.out = "reverted"]
    /\ UNCHANGED sessionVars

\* the module-level state before any view is rendered, with a running score
\* drawn from ScoreSamples
FnInit ==
    /\ step = 0
    /\ language = "it"
    /\ idx = 0
    /\ score \in ScoreSamples
    /\ questions = << >>
    /\ questionsByLang = << >>
    /\ weightTotals = ZeroWeights
    /\ answers = << >>
    /\ resultSaved = FALSE
    /\ dom = "empty"
    /\ loads = << >>
    /\ source = 1
    /\ quadrantsPromise = "null"
    /\ QUADRANT_DATA = << >>
    /\ waiting = << >>
    /\ thrown = FALSE
    /\ name = ""
    /\ reviews = << >>
    /\ reviewForm = NoReviewForm
    /\ gate = GateShown
    /\ quadrantFetches = 0
    /\ resultHistory = NoHistory
    /\ profile = NoProfile
    /\ filters = AllFilters
    /\ probe = Idle

FnNext ==
    \/ ProbeNormalizeQuestion
    \/ ProbeNormalizeAxis
    \/ ProbeQuadrant
    \/ ProbeColor
    \/ ProbeLongLegend
    \/ ProbeApply
    \/ ProbeRevert

FnSpec == FnInit /\ [][FnNext]_vars

----------------------------------------------------------------------------
(* Properties of the functions taken one call at a time (FnSpec) *)

\* C3: applyScore(q, v) immediately followed by applyScore(q, -v) leaves the
\* running score vector equal to its value before the first call.
C3_ApplyThenRevertRestores ==
    (probe.fn = "applyScore" /\ probe.out = "reverted") => score = probe.arg.before

C3_Witness ==
    /\ probe.fn = "applyScore"
    /\ probe.out = "reverted"
    /\ probe.arg.v = Q(-1, 2)
    /\ probe.arg.q.weights["economia"] = Q(1, 3)
    /\ probe.arg.q.weights["establishment"] = Q(-2, 3)
    /\ probe.arg.before.x = Q(1, 2)

\* the integer cross products that compare score / total with 1 in magnitude
RatioNum(p) == Abs(p.arg.score[1] * p.arg.total.d)
RatioDen(p) == Abs(p.arg.total.n * p.arg.score[2])
RatioSign(p) == Sgn(p.arg.score[1]) * Sgn(p.arg.total.n)

FiniteNonZeroTotal(p) ==
    p.arg.total.t = "number" /\ p.arg.total.d > 0 /\ p.arg.total.n # 0

\* C4: every component of getNormalizedScores() lies in [-1, 1]; it is the
\* ratio score/total when that ratio is within [-1, 1], 1 when the ratio is
\* above 1 and -1 when it is below -1.
C4_NormalizedIsClampedRatio ==
    probe.fn = "normalize" =>
        LET v == probe.out.value
        IN  /\ v[2] > 0
            /\ -v[2] <= v[1]
            /\ v[1] <= v[2]
            /\ FiniteNonZeroTotal(probe) =>
                 IF RatioNum(probe) <= RatioDen(probe)
                 THEN v[1] * probe.arg.total.n * probe.arg.score[2]
                        = probe.arg.score[1] * probe.arg.total.d * v[2]
                 ELSE v = N(RatioSign(probe))

C4_Witness ==
    /\ probe.fn = "normalize"
    /\ probe.arg.score = Q(5, 2)
    /\ probe.arg.total = JsNum(Q(3, 2))
    /\ probe.out.value = N(1)

\* the axis total is 0, missing or not a number
ZeroOrMissingTotal(total) ==
    \/ total.t = "undefined"
    \/ total.t = "null"
    \/ total.t = "number" /\ total.n = 0
    \/ total.t = "string" /\ total.s \in {"", "abc"}

\* C5: when the axis total is 0 (or missing / non-numeric), the normalized
\* component is exactly 0 for every running score and no division is made.
C5_ZeroTotalGivesZero ==
    (probe.fn = "normalize" /\ ZeroOrMissingTotal(probe.arg.total)) =>
        (probe.out.value = N(0) /\ ~probe.out.divided)

C5_Witness ==
    /\ probe.fn = "normalize"
    /\ probe.arg.total = JsNum(N(0))
    /\ probe.arg.score = Q(-3, 2)
    /\ probe.out.value = N(0)

\* the sum of the absolute values of three finite weights, as a fraction
AbsSumIsOne(w) ==
    /\ \A a \in AxisSet : w[a][2] > 0
    /\ JAdd(JAdd(JAbs(w["economia"]), JAbs(w["dirittocivilismo"])), JAbs(w["establishment"])) = N(1)

\* C6: if at least one axis weight is non-zero before scaling, the absolute
\* values of the three output weights sum to 1 and each output keeps the sign
\* of its input; if all three are zero, all three outputs are 0.
C6_WeightsSumToOne ==
    (probe.fn = "normalizeQuestionEntry" /\ probe.arg.t = "object") =>
        LET pre == probe.out.pre
            w == probe.out.res.weights
        IN  IF \E a \in AxisSet : pre[a] # N(0)
            THEN AbsSumIsOne(w) /\ \A a \in AxisSet : Sgn(w[a][1]) = Sgn(pre[a][1])
            ELSE \A a \in AxisSet : w[a] = N(0)

\* the explicit weight of an axis is a number or coerces to one
NumericCoercible(v) == v.t # "undefined" /\ ~IsNaN(ToNumber(v))

\* the pre-scaling weight as the specification words it
SpecPreScaleWeight(question, axis) ==
    IF question.weights.t = "object" /\ NumericCoercible(question.weights[axis])
    THEN ToNumber(question.weights[axis])
    ELSE IF question.component.t = "string"
            /\ (question.component.s = axis
                \/ (question.component.s = "autoritarismo" /\ axis = "dirittocivilismo"))
    THEN N(1)
    ELSE N(0)

\* C7: per axis the pre-scaling weight is the explicit weight when it is
\* numeric or numeric-coercible, otherwise 1 when the component tag maps to
\* the axis, otherwise 0.
C7_PreScaleWeightRule ==
    (probe.fn = "normalizeQuestionEntry" /\ probe.arg.t = "object") =>
        \A a \in AxisSet : probe.out.pre[a] = SpecPreScaleWeight(probe.arg, a)

\* C8: for a non-object input (null, undefined, number, string, boolean)
\* normalizeQuestionEntry returns the empty title and all-zero weights and
\* does not throw.
C8_NonObjectGivesEmptyQuestion ==
    (probe.fn = "normalizeQuestionEntry" /\ probe.arg.t \notin {"object", "array"}) =>
        /\ ~probe.out.res.exc
        /\ probe.out.res.title = JsStr("")
        /\ \A a \in AxisSet : probe.out.res.weights[a] = N(0)

C8_Witness ==
    /\ probe.fn = "normalizeQuestionEntry"
    /\ probe.arg.t = "null"
    /\ probe.out.res.title = JsStr("")

----------------------------------------------------------------------------
(* The application session: views, handlers and asynchronous loads *)

\* the running score an answer may reach on an axis, in magnitude
MaxScore == 1

\* loadQuestions() calls that may be in flight together
MaxLoads == 2

\* the language codes of LANGUAGES that the session uses
Langs == {"it", "en"}

Title == JsStr("Domanda")

NumWeights(e, dc, es) == WeightsValue(JsObject, JsNum(N(e)), JsNum(N(dc)), JsNum(N(es)))

qEconomy == QuestionValue(JsObject, Title, NumWeights(1, 0, 0), JsUndefined)
qRights == QuestionValue(JsObject, Title, NumWeights(0, 1, 0), JsUndefined)
qMixed == QuestionValue(JsObject, Title, NumWeights(1, -1, 2), JsUndefined)
qEstablishment == QuestionValue(JsObject, Title, NumWeights(0, 0, 1), JsUndefined)
qLegacy == QuestionValue(JsObject, Title, NoAxes(JsUndefined), JsStr("establishment"))
qUntitled == QuestionValue(JsObject, JsUndefined, NumWeights(0, 0, 1), JsUndefined)
qOverflow == QuestionValue(JsObject, Title,
                           WeightsValue(JsObject, JsStr("Infinity"), JsNum(N(0)), JsNum(N(1))),
                           JsUndefined)

\* what res.json() yields for a questions file
ArrayFile(items) == [isArray |-> TRUE, items |-> items]
ObjectFile == [isArray |-> FALSE, items |-> << >>]

\* the files a session may find on the server: questions_<lang>.json and quadrants.json
Sources ==
    <<[it |-> ArrayFile(<<qEconomy, qMixed>>), en |-> ArrayFile(<<qLegacy>>),
       quadrants |-> QuadrantFile(TRUE, TRUE, <<Entry(JsNum(N(1)), JsStr("Testo"), NoBounds)>>)],
      [it |-> ArrayFile(<<NoProps(JsNull), qUntitled>>), en |-> ArrayFile(<<qRights>>),
       quadrants |-> QuadrantFile(TRUE, FALSE, << >>)],
      [it |-> ObjectFile, en |-> ArrayFile(<< >>),
       quadrants |-> QuadrantFile(TRUE, TRUE, << >>)],
      [it |-> ArrayFile(<<qEconomy, qRights, qEstablishment>>), en |-> ObjectFile,
       quadrants |-> QuadrantFile(FALSE, FALSE, << >>)],
      [it |-> ArrayFile(<<qEconomy, qOverflow>>), en |-> ObjectFile,
       quadrants |-> QuadrantFile(FALSE, FALSE, << >>)],
      [it |-> ArrayFile(<<qEstablishment>>), en |-> ObjectFile,
       quadrants |-> QuadrantFile(TRUE, TRUE, <<Entry(JsNum(N(1)), JsStr("Testo"), NoBounds)>>)],
      [it |-> ArrayFile(<<qMixed, qRights>>), en |-> ObjectFile,
       quadrants |-> QuadrantFile(FALSE, FALSE, << >>)]>>

\* the outcomes of the fetch of quadrants.json in a session: the file of the
\* server, or a failed request
SessionQuadrantFiles == {Sources[source].quadrants, QuadrantFile(FALSE, FALSE, << >>)}

NoCache == [cached |-> FALSE, questions |-> << >>, totals |-> ZeroWeights]

NoLoads == [l \in Langs |-> 0]

\* the DOM: the rendered view, and for the quiz the question its handlers
\* closed over and whether the skipQuiz button was rendered
\* and for the result and insights views the result they display
\* and for the insights view the options selected in its two filters
Dom(view) ==
    [view |-> view, q |-> NoQuestion, skip |-> FALSE, result |-> << >>, selected |-> AllFilters]
QuizDom(q, skip) ==
    [view |-> "quiz", q |-> q, skip |-> skip, result |-> << >>, selected |-> AllFilters]
ResultDom(view, res, selected) ==
    [view |-> view, q |-> NoQuestion, skip |-> FALSE, result |-> res, selected |-> selected]

\* the session as one value, so that a handler is a function on it
Cur ==
    [step |-> step, language |-> language, idx |-> idx, score |-> score,
     questions |-> questions, questionsByLang |-> questionsByLang,
     weightTotals |-> weightTotals, answers |-> answers, resultSaved |-> resultSaved,
     dom |-> dom, loads |-> loads, quadrantsPromise |-> quadrantsPromise,
     QUADRANT_DATA |-> QUADRANT_DATA,
     waiting |-> waiting, thrown |-> thrown, gate |-> gate,
     quadrantFetches |-> quadrantFetches, resultHistory |-> resultHistory,
     profile |-> profile, filters |-> filters]

Commit(s) ==
    /\ step' = s.step
    /\ language' = s.language
    /\ idx' = s.idx
    /\ score' = s.score
    /\ questions' = s.questions
    /\ questionsByLang' = s.questionsByLang
    /\ weightTotals' = s.weightTotals
    /\ answers' = s.answers
    /\ resultSaved' = s.resultSaved
    /\ dom' = s.dom
    /\ loads' = s.loads
    /\ quadrantsPromise' = s.quadrantsPromise
    /\ QUADRANT_DATA' = s.QUADRANT_DATA
    /\ waiting' = s.waiting
    /\ thrown' = s.thrown
    /\ gate' = s.gate
    /\ quadrantFetches' = s.quadrantFetches
    /\ resultHistory' = s.resultHistory
    /\ profile' = s.profile
    /\ filters' = s.filters
    /\ UNCHANGED <<source, probe, name, reviews, reviewForm>>

\* array[i] for a 0-based i
At(array, i) == IF i >= 0 /\ i < Len(array) THEN array[i + 1] ELSE JsUndefined

QuestionAt(array, i) == IF i >= 0 /\ i < Len(array) THEN array[i + 1] ELSE NoQuestion

\* array[i] = v for a 0-based i: the array grows, the new holes read undefined
SetAt(array, i, v) ==
    [k \in 1..(IF i + 1 > Len(array) THEN i + 1 ELSE Len(array)) |->
        IF k = i + 1 THEN v ELSE IF k <= Len(array) THEN array[k] ELSE JsUndefined]

\* loadQuadrants without the test of quadrantsPromise
loadQuadrantsNoMemo(s) ==
    [s EXCEPT !.quadrantsPromise = "pending", !.quadrantFetches = @ + 1]

\* loadQuadrants: the fetch is issued only while quadrantsPromise is null
loadQuadrants(s) ==
    IF s.quadrantsPromise # "null" THEN s
    ELSE [s EXCEPT !.quadrantsPromise = "pending", !.quadrantFetches = @ + 1]

\* getNormalizedScores on the session
getNormalizedScores(s) ==
    NormalizedOf(s.score, [a \in AxisSet |-> JsNum(s.weightTotals[a])])

\* theta = magnitude ? Math.acos(z / magnitude) : 0 is 0
ThetaIsZero(x, y, z) ==
    IsZero(SquaredLength(x, y, z)) \/ (IsZero(x) /\ IsZero(y) /\ SignOf(z) > 0)

\* phi = Math.atan2(y, x), plus 2 pi when negative, is 0
PhiIsZero(x, y) == IsZero(y) /\ SignOf(x) >= 0

\* extra?.content || quadrantMeta.descriptor
DescriptorOf(data, extra, quadrantMeta) ==
    IF extra.t = "object" /\ Truthy(data[extra.pos].content)
    THEN data[extra.pos].content
    ELSE JsStr(quadrantMeta.descriptor)

\* the 0-based index shown, without the + 1
Quadrant16ZeroBased(phiSector, thetaSector) ==
    MathMin(N(phiSector * 4 + thetaSector), N(16))[1]

\* Math.min(phiSector * 4 + thetaSector + 1, 16)
Quadrant16(phiSector, thetaSector) ==
    MathMin(N(phiSector * 4 + thetaSector + 1), N(16))[1]

\* the object computeResults returns; theta and phi are kept as the sector
\* floor() gives and whether the angle is 0
ResultRecord(s, normalized, phiSector, thetaSector, quadrantMeta, extra) ==
    [theta |-> [zero |-> ThetaIsZero(normalized.x, normalized.y, normalized.z),
                sector |-> thetaSector],
     phi |-> [zero |-> PhiIsZero(normalized.x, normalized.y), sector |-> phiSector],
     quadrant16 |-> Quadrant16(phiSector, thetaSector),
     descriptor |-> DescriptorOf(s.QUADRANT_DATA, extra, quadrantMeta),
     color |-> quadrantMeta.color,
     phiSector |-> quadrantMeta.phiSector,
     thetaSector |-> quadrantMeta.thetaSector,
     normalized |-> normalized,
     raw |-> s.score,
     quadrantInfo |-> extra]

\* computeResults from `const extra = getQuadrantDetails(...)` on
ResultsOfQuadrant(s, normalized, quadrantMeta) ==
    ResultRecord(s, normalized,
                 PhiSectorRaw(normalized.x, normalized.y),
                 ThetaSectorRaw(normalized.x, normalized.y, normalized.z),
                 quadrantMeta,
                 getQuadrantDetails(s.QUADRANT_DATA, quadrantMeta.index,
                                    Vector(normalized.x, normalized.y, normalized.z)))

\* computeResults from `const quadrantMeta = quadrantFromVector(x, y, z)` on
ResultsOfNormalized(s, normalized) ==
    ResultsOfQuadrant(s, normalized,
                      quadrantFromVector(normalized.x, normalized.y, normalized.z))

computeResults(s) == ResultsOfNormalized(s, getNormalizedScores(s))

\* state.profession.trim().toLowerCase(), or 'unspecified'
normalizeProfession(value) ==
    IF value = "" \/ StrTrim(value) = "" THEN "unspecified" ELSE ToLowerCase(StrTrim(value))

\* the record persistCurrentResult builds from res = computeResults(); id,
\* timestamp and the fields no function reads back are left out
HistoryRecord(s, res) ==
    [professionKey |-> normalizeProfession(s.profile.profession),
     education |-> s.profile.education,
     quadrant |-> res.quadrant16,
     normalized |-> res.normalized,
     raw |-> res.raw]

\* history.push(record); saveResultHistory(history)
saveResultHistory(history, record) ==
    IF history.tracked THEN [history EXCEPT !.records = Append(@, record)] ELSE history

persistCurrentResult(s) ==
    IF s.resultSaved THEN s
    ELSE [s EXCEPT !.resultHistory = saveResultHistory(@, HistoryRecord(s, computeResults(s))),
                   !.resultSaved = TRUE]

\* the part of viewResult after `await ensureQuadrantsLoaded()`
renderResult(s) == [s EXCEPT !.dom = ResultDom("result", computeResults(s), AllFilters)]

\* the part of viewInsights after `await ensureQuadrantsLoaded()`
\* viewInsights: a filter that is unset or 'all' becomes the user's own
\* profession key, respectively education, when the user has one
FilterDefaults(s) ==
    [profession |-> IF s.filters.profession \in {"", "all"}
                       /\ normalizeProfession(s.profile.profession) # "unspecified"
                    THEN normalizeProfession(s.profile.profession)
                    ELSE s.filters.profession,
     education |-> IF s.filters.education \in {"", "all"} /\ s.profile.education # ""
                   THEN s.profile.education
                   ELSE s.filters.education]

\* selectedProfession and selectedEducation
SelectedOf(f) ==
    [profession |-> IF f.profession = "" THEN "all" ELSE f.profession,
     education |-> IF f.education = "" THEN "all" ELSE f.education]

renderInsights(s) ==
    [s EXCEPT !.filters = FilterDefaults(s),
              !.dom = ResultDom("insights", computeResults(s), SelectedOf(FilterDefaults(s)))]

\* an async view that renders at once, the load settled or not
AwaitNoSuspend(s, view) ==
    LET s1 == loadQuadrants(s)
    IN  IF view = "result" THEN renderResult(s1) ELSE renderInsights(s1)

\* the continuation of an async view, run when the quadrant promise has
\* settled and suspended otherwise; a continuation equal to the last suspended
\* one is not recorded again, as it renders the same DOM from the same state
Await(s, view) ==
    LET s1 == loadQuadrants(s)
    IN  IF s1.quadrantsPromise = "settled"
        THEN (IF view = "result" THEN renderResult(s1) ELSE renderInsights(s1))
        ELSE IF s1.waiting # << >> /\ s1.waiting[Len(s1.waiting)] = view THEN s1
        ELSE [s1 EXCEPT !.waiting = Append(@, view)]

viewResult(s) == Await(persistCurrentResult([s EXCEPT !.step = 4]), "result")

viewInsights(s) == Await(persistCurrentResult([s EXCEPT !.step = 5]), "insights")

finish(s) == viewResult([s EXCEPT !.step = 4])

\* escapeHtml(s) is s.replace(...): a TypeError unless s is a string
escapeHtmlThrows(v) == v.t # "string"

\* viewQuiz without the test of idx against the number of questions
viewQuizAlwaysRenders(s) ==
    LET s1 == [s EXCEPT !.step = 3]
        q == QuestionAt(s1.questions, s1.idx)
    IN  IF escapeHtmlThrows(q.title)
        THEN [s1 EXCEPT !.thrown = TRUE]
        ELSE [s1 EXCEPT !.dom = QuizDom(q, s1.idx + 1 >= Len(s1.questions) \div 2)]

viewQuiz(s) ==
    LET s1 == [s EXCEPT !.step = 3]
    IN  IF s1.idx >= Len(s1.questions) THEN finish(s1)
        ELSE LET q == QuestionAt(s1.questions, s1.idx)
                 total == Len(s1.questions)
                 half == total \div 2
             IN  IF escapeHtmlThrows(q.title)
                 THEN [s1 EXCEPT !.thrown = TRUE]
                 ELSE [s1 EXCEPT !.dom = QuizDom(q, s1.idx + 1 >= half)]

viewProfile(s) == [s EXCEPT !.step = 2, !.dom = Dom("profile")]

viewWelcome(s) == [s EXCEPT !.step = 1, !.dom = Dom("welcome")]

viewLanguage(s) == [s EXCEPT !.step = 0, !.dom = Dom("language")]

viewReviews(s) == [s EXCEPT !.step = 6, !.dom = Dom("reviews")]

\* stepForward that renders the same question again
stepForwardSameIndex(s) ==
    IF s.idx < Len(s.questions) - 1
    THEN viewQuiz(s)
    ELSE finish(s)

stepForward(s) ==
    IF s.idx < Len(s.questions) - 1
    THEN viewQuiz([s EXCEPT !.idx = @ + 1])
    ELSE finish(s)

stepBack(s) ==
    IF s.idx = 0 THEN viewProfile([s EXCEPT !.step = 2])
    ELSE LET prevQ == QuestionAt(s.questions, s.idx)
             prevScore == At(s.answers, s.idx)
             s1 == IF prevScore.t # "undefined"
                   THEN [s EXCEPT !.score = applyScore(s.score, prevQ, JNeg(NumOf(prevScore))),
                                  !.answers = SetAt(s.answers, s.idx, JsUndefined)]
                   ELSE s
         IN  viewQuiz([s1 EXCEPT !.idx = @ - 1])

\* the assignments shared by the language handler, goProfile and the restart handlers
ResetQuiz(s) ==
    [s EXCEPT !.idx = 0, !.score = ZeroScore, !.weightTotals = ZeroWeights,
              !.answers = << >>, !.resultSaved = FALSE]

\* the profile and filter assignments of the language handler and of the
\* restart handlers
ResetProfile(s) == [s EXCEPT !.profile = NoProfile, !.filters = AllFilters]

\* what the profile form holds when #goProfile accepts it
ProfileForms == {[profession |-> "Medico", education |-> "laurea"]}

\* the assignments of goProfile before loadQuestions()
goProfile(s, form) == [ResetQuiz(s) EXCEPT !.profile = form]

\* the score stays within the modelled range
WithinCap(sc) ==
    /\ JLe(JAbs(sc.x), N(MaxScore))
    /\ JLe(JAbs(sc.y), N(MaxScore))
    /\ JLe(JAbs(sc.z), N(MaxScore))

RECURSIVE SumOver(_, _)
SumOver(f, S) ==
    IF S = {} THEN 0
    ELSE LET e == CHOOSE e \in S : TRUE IN f[e] + SumOver(f, S \ {e})

InFlight(l) == SumOver(l, Langs)

\* .lang-btn onclick
SelectLanguage ==
    /\ dom.view = "language"
    /\ \E lang \in Langs :
         Commit(viewWelcome([ResetProfile(ResetQuiz(Cur)) EXCEPT !.language = lang, !.step = 1]))

\* #goName onclick with a non-empty name
ConfirmName ==
    /\ dom.view = "welcome"
    /\ Commit(viewProfile([Cur EXCEPT !.step = 2]))

\* #backProfile onclick
BackProfile ==
    /\ dom.view = "profile"
    /\ Commit(viewWelcome([Cur EXCEPT !.step = 1]))

\* the cached branch with the totals of the cache left aside
loadQuestionsCachedNoTotals(s) ==
    [s EXCEPT !.questions = s.questionsByLang[s.language].questions]

\* loadQuestions() when state.questionsByLang[lang] is set
loadQuestionsCached(s) ==
    [s EXCEPT !.questions = s.questionsByLang[s.language].questions,
              !.weightTotals = s.questionsByLang[s.language].totals]

\* #goProfile onclick with a complete form, the questions of the language cached:
\* loadQuestions() returns at once and viewQuiz() follows in the same task
ConfirmProfileCached ==
    /\ dom.view = "profile"
    /\ questionsByLang[language].cached
    /\ \E form \in ProfileForms :
         Commit(viewQuiz(loadQuestionsCached(goProfile(Cur, form))))

\* #goProfile onclick with a complete form, the questions not cached:
\* loadQuestions() issues the fetch and is suspended
ConfirmProfileFetch ==
    /\ dom.view = "profile"
    /\ ~questionsByLang[language].cached
    /\ InFlight(loads) < MaxLoads
    /\ \E form \in ProfileForms :
         Commit([goProfile(Cur, form) EXCEPT !.loads[language] = @ + 1])

\* the fetch of a loadQuestions() call settles with a body that parses as JSON
LoadQuestionsDone ==
    \E lang \in Langs :
        /\ loads[lang] > 0
        /\ LET data == Sources[source][lang]
               normalized == IF data.isArray
                             THEN [k \in 1..Len(data.items) |-> normalizeQuestionEntry(data.items[k])]
                             ELSE << >>
               threw == \E k \in 1..Len(normalized) : normalized[k].exc
               totals == computeWeightTotals(normalized)
               s0 == [Cur EXCEPT !.loads[lang] = @ - 1]
               s1 == IF threw
                     THEN [s0 EXCEPT !.questions = << >>, !.weightTotals = ZeroWeights]
                     ELSE [s0 EXCEPT !.questionsByLang[lang] =
                                        [cached |-> TRUE, questions |-> normalized, totals |-> totals],
                                     !.questions = normalized,
                                     !.weightTotals = totals]
           IN  Commit(viewQuiz(s1))

\* the fetch of a loadQuestions() call fails, or its body is not JSON
LoadQuestionsFailed ==
    \E lang \in Langs :
        /\ loads[lang] > 0
        /\ Commit(viewQuiz([Cur EXCEPT !.loads[lang] = @ - 1,
                                       !.questions = << >>,
                                       !.weightTotals = ZeroWeights]))

\* the assignments of the .ans handler before stepForward()
recordAnswer(s, value) ==
    [s EXCEPT !.score = applyScore(s.score, s.dom.q, value),
              !.answers = SetAt(s.answers, s.idx, JsNum(value))]

\* .ans onclick: the handler of the button of ANSWER_VALUES[i]
Answer ==
    /\ dom.view = "quiz"
    /\ \E i \in 1..Len(ANSWER_VALUES) :
         /\ WithinCap(recordAnswer(Cur, StrToNum(AnswerAttr[i])).score)
         /\ Commit(stepForward(recordAnswer(Cur, StrToNum(AnswerAttr[i]))))

\* #backQuiz onclick
Back ==
    /\ dom.view = "quiz"
    /\ Commit(stepBack(Cur))

\* #nextQuiz onclick
Skip ==
    /\ dom.view = "quiz"
    /\ Commit(stepForward(Cur))

\* #skipQuiz onclick
JumpToEnd ==
    /\ dom.view = "quiz"
    /\ dom.skip
    /\ Commit(finish(Cur))

\* #showInsights onclick
ShowInsights ==
    /\ dom.view = "result"
    /\ Commit(viewInsights(Cur))

\* #backResult onclick
BackResult ==
    /\ dom.view = "insights"
    /\ Commit(viewResult(Cur))

\* #restartTest and #restartFromInsights onclick
Restart ==
    /\ dom.view \in {"result", "insights"}
    /\ Commit(viewLanguage([ResetProfile(ResetQuiz(Cur)) EXCEPT !.language = "it"]))

\* #navReviews onclick in every view but the reviews view; the navigation
\* bar is rendered by the views, so the page behind the gate has none
NavReviews ==
    /\ dom.view \notin {"reviews", "gate"}
    /\ Commit(viewReviews([Cur EXCEPT !.step = 6]))

\* #backFromReviews onclick
BackFromReviews ==
    /\ dom.view = "reviews"
    /\ Commit(viewWelcome([Cur EXCEPT !.step = 1]))

RECURSIVE RunContinuations(_, _)
RunContinuations(s, conts) ==
    IF conts = << >> THEN s
    ELSE RunContinuations(IF conts[1] = "result" THEN renderResult(s) ELSE renderInsights(s),
                          Tail(conts))

\* the body of the promise of loadQuadrants runs to its end on one of files:
\* QUADRANT_DATA is the fetched array, or [] for any other outcome; then the
\* suspended views resume in order
QuadrantsSettledFrom(files) ==
    /\ quadrantsPromise = "pending"
    /\ \E file \in files :
         LET data == IF file.ok /\ file.isArray THEN file.items ELSE << >>
         IN  Commit(RunContinuations([Cur EXCEPT !.quadrantsPromise = "settled",
                                                 !.QUADRANT_DATA = data,
                                                 !.waiting = << >>],
                                     waiting))

\* the fetch of quadrants.json settles in a session
QuadrantsSettled == QuadrantsSettledFrom(SessionQuadrantFiles)

MAGIC_WORD == "mellon"

MAX_ACCESS_ATTEMPTS == 3

\* what the input #magicWord may hold when a submission is made
GateValues == {"", " ", "mellon", " Mellon ", "amico"}

\* the callback of DOMContentLoaded: loadQuadrants(); viewLanguage();
onSuccess(s) == viewLanguage(loadQuadrants(s))

unlock(s) ==
    IF s.gate.unlocked THEN s
    ELSE onSuccess([s EXCEPT !.gate.unlocked = TRUE, !.gate.started = @ + 1])

\* lockOut that hides the form and leaves button and input enabled
lockOutEnabled(s) == s

lockOut(s) == [s EXCEPT !.gate.disabled = TRUE]

\* the part of verify() after `if (unlocked) return`, value being input.value
verifyLocked(s, value) ==
    IF ToLowerCase(StrTrim(value)) = "" THEN s
    ELSE IF ToLowerCase(StrTrim(value)) = MAGIC_WORD THEN unlock(s)
    ELSE IF s.gate.attempts + 1 >= MAX_ACCESS_ATTEMPTS
         THEN lockOut([s EXCEPT !.gate.attempts = @ + 1])
         ELSE [s EXCEPT !.gate.attempts = @ + 1]

\* verify() without the test of unlocked
verifyUnguarded(s, value) == verifyLocked([s EXCEPT !.gate.submitted = value], value)

\* verify() with input.value = value
verify(s, value) ==
    IF s.gate.unlocked THEN s
    ELSE verifyLocked([s EXCEPT !.gate.submitted = value], value)

\* a click on #accessSubmit or Enter in #magicWord: a disabled button
\* dispatches no click and a disabled input receives no key
GateSubmit ==
    /\ gate.present
    /\ ~gate.disabled
    /\ \E value \in GateValues : Commit(verify(Cur, value))

\* the state once the access gate has run its success callback:
\* loadQuadrants(); viewLanguage();
Init ==
    /\ step = 0
    /\ language = "it"
    /\ idx = 0
    /\ score = ZeroScore
    /\ questions = << >>
    /\ questionsByLang = [l \in Langs |-> NoCache]
    /\ weightTotals = ZeroWeights
    /\ answers = << >>
    /\ resultSaved = FALSE
    /\ dom = Dom("language")
    /\ loads = NoLoads
    /\ source \in 1..(Len(Sources) - 4)
    /\ quadrantsPromise = "pending"
    /\ QUADRANT_DATA = << >>
    /\ waiting = << >>
    /\ thrown = FALSE
    /\ name = ""
    /\ reviews = << >>
    /\ reviewForm = NoReviewForm
    /\ gate = GateOpened
    /\ quadrantFetches = 1
    /\ resultHistory = NoHistory
    /\ profile = NoProfile
    /\ filters = AllFilters
    /\ probe = Idle

Next ==
    \/ SelectLanguage
    \/ ConfirmName
    \/ BackProfile
    \/ ConfirmProfileCached
    \/ ConfirmProfileFetch
    \/ LoadQuestionsDone
    \/ LoadQuestionsFailed
    \/ Answer
    \/ Back
    \/ Skip
    \/ JumpToEnd
    \/ ShowInsights
    \/ BackResult
    \/ Restart
    \/ NavReviews
    \/ BackFromReviews
    \/ QuadrantsSettled

Spec == Init /\ [][Next]_vars

\* a session against the server that holds the three one-hot questions
ExampleInit ==
    /\ step = 0
    /\ language = "it"
    /\ idx = 0
    /\ score = ZeroScore
    /\ questions = << >>
    /\ questionsByLang = [l \in Langs |-> NoCache]
    /\ weightTotals = ZeroWeights
    /\ answers = << >>
    /\ resultSaved = FALSE
    /\ dom = Dom("language")
    /\ loads = NoLoads
    /\ source = Len(Sources) - 3
    /\ quadrantsPromise = "pending"
    /\ QUADRANT_DATA = << >>
    /\ waiting = << >>
    /\ thrown = FALSE
    /\ name = ""
    /\ reviews = << >>
    /\ reviewForm = NoReviewForm
    /\ gate = GateOpened
    /\ quadrantFetches = 1
    /\ resultHistory = NoHistory
    /\ profile = NoProfile
    /\ filters = AllFilters
    /\ probe = Idle

\* the user answers, skips and navigates, and never presses back in the quiz
ExampleNext ==
    \/ SelectLanguage
    \/ ConfirmName
    \/ BackProfile
    \/ ConfirmProfileCached
    \/ ConfirmProfileFetch
    \/ LoadQuestionsDone
    \/ LoadQuestionsFailed
    \/ Answer
    \/ Skip
    \/ JumpToEnd
    \/ ShowInsights
    \/ BackResult
    \/ Restart
    \/ NavReviews
    \/ BackFromReviews
    \/ QuadrantsSettled

ExampleSpec == ExampleInit /\ [][ExampleNext]_vars

\* a session against the server whose Italian file holds a weight that
\* Number() turns into Infinity
OverflowInit ==
    /\ step = 0
    /\ language = "it"
    /\ idx = 0
    /\ score = ZeroScore
    /\ questions = << >>
    /\ questionsByLang = [l \in Langs |-> NoCache]
    /\ weightTotals = ZeroWeights
    /\ answers = << >>
    /\ resultSaved = FALSE
    /\ dom = Dom("language")
    /\ loads = NoLoads
    /\ source = Len(Sources) - 2
    /\ quadrantsPromise = "pending"
    /\ QUADRANT_DATA = << >>
    /\ waiting = << >>
    /\ thrown = FALSE
    /\ name = ""
    /\ reviews = << >>
    /\ reviewForm = NoReviewForm
    /\ gate = GateOpened
    /\ quadrantFetches = 1
    /\ resultHistory = NoHistory
    /\ profile = NoProfile
    /\ filters = AllFilters
    /\ probe = Idle

OverflowSpec == OverflowInit /\ [][ExampleNext]_vars

\* the page once the DOMContentLoaded handler has run setupAccessGate: the
\* gate is shown, or an element of it is missing and the application has
\* started; the server holds one Italian question
StartInit ==
    /\ step = 0
    /\ language = "it"
    /\ idx = 0
    /\ score = ZeroScore
    /\ questions = << >>
    /\ questionsByLang = [l \in Langs |-> NoCache]
    /\ weightTotals = ZeroWeights
    /\ answers = << >>
    /\ resultSaved = FALSE
    /\ loads = NoLoads
    /\ source = Len(Sources) - 1
    /\ QUADRANT_DATA = << >>
    /\ waiting = << >>
    /\ thrown = FALSE
    /\ name = ""
    /\ reviews = << >>
    /\ reviewForm = NoReviewForm
    /\ \/ /\ gate = GateShown
          /\ dom = Dom("gate")
          /\ quadrantsPromise = "null"
          /\ quadrantFetches = 0
       \/ /\ gate = GateAbsent
          /\ dom = Dom("language")
          /\ quadrantsPromise = "pending"
          /\ quadrantFetches = 1
    /\ resultHistory = NoHistory
    /\ profile = NoProfile
    /\ filters = AllFilters
    /\ probe = Idle

\* the gate, and behind it the session of a user who never presses back
StartNext == GateSubmit \/ ExampleNext

StartSpec == StartInit /\ [][StartNext]_vars

\* result records that localStorage may come to hold
MaxHistory == 2

\* #filterProfession onchange with the option value chosen
SelectProfessionFilter ==
    /\ dom.view = "insights"
    /\ \E value \in {"all", "unspecified", normalizeProfession(profile.profession)} :
         Commit(viewInsights([Cur EXCEPT !.filters.profession = value]))

\* #filterEducation onchange with the option value chosen
SelectEducationFilter ==
    /\ dom.view = "insights"
    /\ \E value \in {"all", "laurea", "diploma"} :
         Commit(viewInsights([Cur EXCEPT !.filters.education = value]))

\* a session behind the opened gate, the result history observed
HistoryInit ==
    /\ step = 0
    /\ language = "it"
    /\ idx = 0
    /\ score = ZeroScore
    /\ questions = << >>
    /\ questionsByLang = [l \in Langs |-> NoCache]
    /\ weightTotals = ZeroWeights
    /\ answers = << >>
    /\ resultSaved = FALSE
    /\ dom = Dom("language")
    /\ loads = NoLoads
    /\ source = Len(Sources) - 1
    /\ quadrantsPromise = "pending"
    /\ QUADRANT_DATA = << >>
    /\ waiting = << >>
    /\ thrown = FALSE
    /\ name = ""
    /\ reviews = << >>
    /\ reviewForm = NoReviewForm
    /\ gate = GateOpened
    /\ quadrantFetches = 1
    /\ resultHistory = [tracked |-> TRUE, records |-> << >>]
    /\ profile = NoProfile
    /\ filters = AllFilters
    /\ probe = Idle

\* the history holds MaxHistory records at most
HistoryBound == Len(resultHistory'.records) <= MaxHistory

\* the handlers of the session and of the two filters
HistoryNext ==
    \/ SelectLanguage /\ HistoryBound
    \/ ConfirmName /\ HistoryBound
    \/ BackProfile /\ HistoryBound
    \/ ConfirmProfileCached /\ HistoryBound
    \/ ConfirmProfileFetch /\ HistoryBound
    \/ LoadQuestionsDone /\ HistoryBound
    \/ LoadQuestionsFailed /\ HistoryBound
    \/ Answer /\ HistoryBound
    \/ Back /\ HistoryBound
    \/ Skip /\ HistoryBound
    \/ JumpToEnd /\ HistoryBound
    \/ ShowInsights /\ HistoryBound
    \/ BackResult /\ HistoryBound
    \/ Restart /\ HistoryBound
    \/ NavReviews /\ HistoryBound
    \/ BackFromReviews /\ HistoryBound
    \/ QuadrantsSettled /\ HistoryBound
    \/ SelectProfessionFilter /\ HistoryBound
    \/ SelectEducationFilter /\ HistoryBound

HistorySpec == HistoryInit /\ [][HistoryNext]_vars

----------------------------------------------------------------------------
(* The metadata resolver exercised one call at a time on a loaded dataset *)

\* the fetch of quadrants.json settles on one of QuadrantFiles
QuadrantsFetched ==
    /\ probe.fn = "idle"
    /\ QuadrantsSettledFrom(QuadrantFiles)

\* getQuadrantDetails(index, vector) on the current QUADRANT_DATA
ProbeDetails ==
    /\ probe.fn = "idle"
    /\ \E index \in 0..MaxIndex, vector \in Vectors :
         probe' = [fn |-> "getQuadrantDetails", arg |-> [index |-> index, vector |-> vector],
                   out |-> getQuadrantDetails(QUADRANT_DATA, index, vector)]
    /\ UNCHANGED <<sessionVars, score>>

\* getQuadrantLegend() on the current QUADRANT_DATA
ProbeLegend ==
    /\ probe.fn = "idle"
    /\ probe' = [fn |-> "getQuadrantLegend", arg |-> << >>,
                 out |-> getQuadrantLegend(QUADRANT_DATA)]
    /\ UNCHANGED <<sessionVars, score>>

\* the application right after startup: loadQuadrants() has issued its fetch
ResolverInit ==
    /\ step = 0
    /\ language = "it"
    /\ idx = 0
    /\ score = ZeroScore
    /\ questions = << >>
    /\ questionsByLang = [l \in Langs |-> NoCache]
    /\ weightTotals = ZeroWeights
    /\ answers = << >>
    /\ resultSaved = FALSE
    /\ dom = Dom("language")
    /\ loads = NoLoads
    /\ source = 1
    /\ quadrantsPromise = "pending"
    /\ QUADRANT_DATA = << >>
    /\ waiting = << >>
    /\ thrown = FALSE
    /\ name = ""
    /\ reviews = << >>
    /\ reviewForm = NoReviewForm
    /\ gate = GateOpened
    /\ quadrantFetches = 1
    /\ resultHistory = NoHistory
    /\ profile = NoProfile
    /\ filters = AllFilters
    /\ probe = Idle

ResolverNext ==
    \/ QuadrantsFetched
    \/ ProbeDetails
    \/ ProbeLegend

ResolverSpec == ResolverInit /\ [][ResolverNext]_vars

----------------------------------------------------------------------------
(* Properties of the session (Spec) *)

\* the sum over the set answer slots 0..n-1 of weights[axis] * answer
RECURSIVE AppliedSum(_, _)
AppliedSum(axis, n) ==
    IF n = 0 THEN N(0)
    ELSE LET a == At(answers, n - 1)
             w == QuestionAt(questions, n - 1).weights[axis]
         IN  IF a.t = "undefined" THEN AppliedSum(axis, n - 1)
             ELSE JAdd(AppliedSum(axis, n - 1), JMul(w, NumOf(a)))

\* C1: in every state of a quiz session with a question on screen (no load
\* and no result view pending), for each axis the running score equals the
\* sum, over the question indices whose answer slot is set, of
\* questions[i].weights[axis] * answers[i].
C1_ScoreIsSumOfRecordedAnswers ==
    (dom.view = "quiz" /\ waiting = << >> /\ InFlight(loads) = 0) =>
        /\ score.x = AppliedSum("economia", Len(answers))
        /\ score.y = AppliedSum("dirittocivilismo", Len(answers))
        /\ score.z = AppliedSum("establishment", Len(answers))

\* the answer slots other than slot i read the same before and after the step
OtherSlotsUnchanged(i) ==
    \A k \in 0..(Len(answers) + Len(answers')) : k # i => At(answers', k) = At(answers, k)

\* C2: pressing back on question i > 0, when question i-1 has a recorded answer
\* v, subtracts weights(i-1)[axis] * v from the running score on every axis,
\* clears the slot of question i-1 and leaves every other slot unchanged.
C2_BackRevertsReturnedQuestion ==
    [][(/\ Back
        /\ idx > 0
        /\ waiting = << >>
        /\ InFlight(loads) = 0
        /\ At(answers, idx - 1).t # "undefined")
       => LET v == NumOf(At(answers, idx - 1))
              w == QuestionAt(questions, idx - 1).weights
          IN  /\ score'.x = JSub(score.x, JMul(w["economia"], v))
              /\ score'.y = JSub(score.y, JMul(w["dirittocivilismo"], v))
              /\ score'.z = JSub(score.z, JMul(w["establishment"], v))
              /\ At(answers', idx - 1).t = "undefined"
              /\ OtherSlotsUnchanged(idx - 1)]_vars

\* C9: whatever the question source delivers, loading the questions and then
\* rendering and stepping through the quiz raises no exception.
C9_NoExceptionFromQuestionData == ~thrown

\* C11: whenever the result or the insights view is on screen, the quadrant
\* number it displays (quadrant16 of computeResults) is
\* quadrantFromVector(x, y, z).index + 1 for the normalized coordinate shown,
\* also when x = y = 0 and z < 0.
C11_ShownQuadrantIsClassifierIndex ==
    dom.view \in {"result", "insights"} =>
        LET n == dom.result.normalized
        IN  dom.result.quadrant16 = quadrantFromVector(n.x, n.y, n.z).index + 1

\* C13: a result computed from the running score (0, 0, 0), as it is when every
\* question was answered with 0 or skipped, has normalized coordinate
\* (0, 0, 0), theta = 0, phi = 0, phiSector = 0, thetaSector = 0 and quadrant id 1.
C13_ZeroScoreGivesOrigin ==
    (dom.view \in {"result", "insights"} /\ dom.result.raw = ZeroScore) =>
        /\ dom.result.normalized = ZeroScore
        /\ dom.result.theta.zero
        /\ dom.result.phi.zero
        /\ dom.result.phiSector = 0
        /\ dom.result.thetaSector = 0
        /\ dom.result.quadrant16 = 1

\* question 1 of two answered with 0, question 2 skipped, the result on screen
C13_Witness ==
    /\ dom.view = "result"
    /\ Len(questions) = 2
    /\ answers = <<JsNum(N(0))>>
    /\ weightTotals # ZeroWeights
    /\ dom.result.raw = ZeroScore
    /\ dom.result.quadrant16 = 1

----------------------------------------------------------------------------
(* The worked example: three one-hot questions (ExampleSpec) *)

UnitScore == [x |-> N(1), y |-> N(1), z |-> N(1)]

UnitTotals == [a \in AxisSet |-> N(1)]

\* the score with 1 added on the axis of the one-hot question at index i
PlusOneAt(sc, i) ==
    CASE i = 0 -> [sc EXCEPT !.x = JAdd(@, N(1))]
      [] i = 1 -> [sc EXCEPT !.y = JAdd(@, N(1))]
      [] OTHER -> [sc EXCEPT !.z = JAdd(@, N(1))]

\* the three one-hot questions are on screen with axis totals 1 each, and a
\* result computed from the running score (1, 1, 1) is the coordinate
\* (1, 1, 1) in phiSector 0, thetaSector 1, index 1, quadrant id 2
ExampleResult ==
    /\ (dom.view = "quiz" /\ Len(questions) = 3) =>
          /\ weightTotals = UnitTotals
          /\ \A i \in 1..3 : \A k \in 1..3 :
                questions[i].weights[AXES[k]] = (IF i = k THEN N(1) ELSE N(0))
    /\ (dom.view \in {"result", "insights"} /\ Len(questions) = 3 /\ dom.result.raw = UnitScore) =>
          /\ dom.result.normalized = UnitScore
          /\ dom.result.phiSector = 0
          /\ dom.result.thetaSector = 1
          /\ quadrantFromVector(N(1), N(1), N(1)).index = 1
          /\ dom.result.quadrant16 = 2

\* an answer with the maximum positive value on the question on screen
AnswersMax ==
    /\ dom.view = "quiz"
    /\ Len(questions) = 3
    /\ score' # score
    /\ At(answers', idx) = JsNum(N(1))

\* C14: with the three one-hot questions the axis totals are 1 each; an answer
\* of 1 adds 1 on the axis of its question, so answering each once yields the
\* running score (1, 1, 1); the result for that score is the coordinate
\* (1, 1, 1), phiSector 0, thetaSector 1, quadrant index 1 and quadrant id 2.
C14_OneHotExample ==
    /\ []ExampleResult
    /\ [][AnswersMax => score' = PlusOneAt(score, idx)]_vars

\* every question answered once with 1 and the result on screen
C14_Witness ==
    /\ dom.view = "result"
    /\ answers = <<JsNum(N(1)), JsNum(N(1)), JsNum(N(1))>>
    /\ score = UnitScore
    /\ weightTotals = UnitTotals
    /\ dom.result.normalized = UnitScore
    /\ dom.result.quadrant16 = 2

----------------------------------------------------------------------------
(* Properties of the metadata resolver (ResolverSpec) *)

\* the smallest element of a non-empty set of positions
First(S) == CHOOSE k \in S : \A j \in S : k <= j

\* the entry is an object whose id is the number n or a string that Number() maps to n
HasId(entry, n) ==
    /\ entry.t = "object"
    /\ \/ entry.id.t = "number" /\ NumOf(entry.id) = N(n)
       \/ entry.id.t = "string" /\ StrToNum(entry.id.s) = N(n)

\* the positions of the entries with id n
WithId(data, n) == {k \in 1..Len(data) : HasId(data[k], n)}

\* C15: with a non-empty dataset, whenever some entry has an id that is the
\* number index + 1 or a string coercible to it, getQuadrantDetails returns the
\* first such entry in dataset order, whatever the coordinate is (inside or
\* outside the entry's bounds, or absent).
C15_FirstIdMatchIsReturned ==
    (probe.fn = "getQuadrantDetails" /\ WithId(QUADRANT_DATA, probe.arg.index + 1) # {}) =>
        /\ probe.out.t = "object"
        /\ probe.out.pos = First(WithId(QUADRANT_DATA, probe.arg.index + 1))

\* index 1 with two entries of string id " 2 " behind an entry that only the
\* bounds would select, and a coordinate outside the bounds of the first match
C15_Witness ==
    /\ probe.fn = "getQuadrantDetails"
    /\ probe.arg.index = 1
    /\ probe.arg.vector = Vector(N(1), N(0), N(0))
    /\ Len(QUADRANT_DATA) = 3
    /\ QUADRANT_DATA[1].id = JsUndefined
    /\ IsCandidate(QUADRANT_DATA[1], probe.arg.vector)
    /\ QUADRANT_DATA[2].id = JsStr(" 2 ")
    /\ ~IsCandidate(QUADRANT_DATA[2], probe.arg.vector)
    /\ QUADRANT_DATA[3].id = JsStr(" 2 ")
    /\ probe.out.pos = 2

\* the positions of the entries that pass the bounds-containment filter
CandidatesFor(data, vector) == {k \in 1..Len(data) : IsCandidate(data[k], vector)}

\* the squared distance from the coordinate to the bounds-centre of entry k
CenterDistance(data, k, vector) ==
    distanceSquared(vector, getBoundsCenter(BoundsOrEmpty(data[k])))

\* C16: when no entry matches by id, a coordinate is supplied and two or more
\* entries pass the bounds filter, getQuadrantDetails returns one of those
\* candidates: one at the minimum squared distance from the coordinate to its
\* bounds-centre, and the earliest in the dataset among those at that distance.
C16_ClosestCandidateIsReturned ==
    (/\ probe.fn = "getQuadrantDetails"
     /\ WithId(QUADRANT_DATA, probe.arg.index + 1) = {}
     /\ probe.arg.vector.t = "object"
     /\ Cardinality(CandidatesFor(QUADRANT_DATA, probe.arg.vector)) >= 2) =>
        LET C == CandidatesFor(QUADRANT_DATA, probe.arg.vector)
            D(k) == CenterDistance(QUADRANT_DATA, k, probe.arg.vector)
        IN  /\ probe.out.t = "object"
            /\ probe.out.pos \in C
            /\ \A j \in C : JLe(D(probe.out.pos), D(j))
            /\ \A j \in C : D(j) = D(probe.out.pos) => probe.out.pos <= j

\* slot i (0-based) of the dataset holds an entry
SlotHoldsEntry(data, i) == i >= 0 /\ i < Len(data) /\ data[i + 1].t = "object"

\* no entry matches by id and the bounds filter selects nothing
NothingMatches(data, index, vector) ==
    /\ WithId(data, index + 1) = {}
    /\ (vector.t = "undefined" \/ CandidatesFor(data, vector) = {})

\* C17: when no entry matches by id and no entry passes the bounds filter (or
\* no coordinate is supplied), getQuadrantDetails returns dataset[index] if
\* that slot holds an entry, otherwise dataset[0], otherwise null; with an
\* empty dataset (also after a non-array or failed load) it returns null.
C17_PositionalFallback ==
    probe.fn = "getQuadrantDetails" =>
        /\ QUADRANT_DATA = << >> => probe.out.t = "null"
        /\ (/\ QUADRANT_DATA # << >>
            /\ NothingMatches(QUADRANT_DATA, probe.arg.index, probe.arg.vector)) =>
              IF SlotHoldsEntry(QUADRANT_DATA, probe.arg.index)
              THEN probe.out.t = "object" /\ probe.out.pos = probe.arg.index + 1
              ELSE IF SlotHoldsEntry(QUADRANT_DATA, 0)
              THEN probe.out.t = "object" /\ probe.out.pos = 1
              ELSE probe.out.t = "null"

\* index 1 on three slots of which slot 1 is null, a coordinate that no entry
\* contains: the first entry is returned
C17_Witness ==
    /\ probe.fn = "getQuadrantDetails"
    /\ probe.arg.index = 1
    /\ probe.arg.vector = Vector(N(1), N(0), N(0))
    /\ Len(QUADRANT_DATA) = 3
    /\ QUADRANT_DATA[1].t = "object"
    /\ QUADRANT_DATA[2] = NullEntry
    /\ QUADRANT_DATA[3].t = "object"
    /\ NothingMatches(QUADRANT_DATA, probe.arg.index, probe.arg.vector)
    /\ probe.out.t = "object"
    /\ probe.out.pos = 1

\* C18 as stated: whenever the dataset is a non-empty array, getQuadrantDetails
\* returns a non-null entry for every index and every coordinate.
C18_NonNullForNonEmptyDataset ==
    (probe.fn = "getQuadrantDetails" /\ QUADRANT_DATA # << >>) => probe.out.t = "object"

\* C18 as amended: whenever the dataset is a non-empty array whose first
\* element is an entry, getQuadrantDetails returns a non-null entry for every
\* index and every coordinate, whatever the ids and bounds of the entries are.
C18_NonNullWhenFirstIsEntry ==
    (/\ probe.fn = "getQuadrantDetails"
     /\ QUADRANT_DATA # << >>
     /\ QUADRANT_DATA[1].t = "object") => probe.out.t = "object"

\* nothing matches, the slot of the index is null, the first entry is returned
C18_Witness ==
    /\ probe.fn = "getQuadrantDetails"
    /\ probe.arg.index = 1
    /\ probe.arg.vector = NoVector
    /\ Len(QUADRANT_DATA) = 2
    /\ QUADRANT_DATA[1].t = "object"
    /\ QUADRANT_DATA[2] = NullEntry
    /\ WithId(QUADRANT_DATA, 2) = {}
    /\ probe.out.t = "object"
    /\ probe.out.pos = 1

\* the synthetic legend: 16 records numbered 1..16, the descriptor made of the
\* two sector labels, the colour of the palette, nothing else
IsSyntheticLegend(legend) ==
    /\ Len(legend) = 16
    /\ \A k \in 1..16 :
         /\ legend[k].number = JsNum(N(k))
         /\ legend[k].descriptor =
               JsStr(PHI_DESCRIPTORS[((k - 1) \div 4) + 1] \o " / "
                     \o THETA_DESCRIPTORS[((k - 1) % 4) + 1])
         /\ legend[k].color = QUADRANT_COLORS[k]
         /\ legend[k].name = JsUndefined
         /\ legend[k].bounds.t = "undefined"
         /\ legend[k].affiliation = JsUndefined

\* one record per dataset entry, in dataset order
IsDatasetLegend(legend, data) ==
    /\ Len(legend) = Len(data)
    /\ \A k \in 1..Len(data) :
         /\ legend[k].name = data[k].name
         /\ legend[k].descriptor = data[k].content
         /\ legend[k].bounds = data[k].bounds
         /\ legend[k].affiliation = data[k].affiliazionepolitica

\* C19: when the dataset is absent, empty, not an array or its load failed,
\* getQuadrantLegend returns exactly 16 entries numbered 1..16 in order, each
\* with a descriptor built from the fixed sector labels and a colour of the
\* palette, and no name, bounds or affiliation; when the dataset is a
\* non-empty array it returns one record per dataset entry, in dataset order.
C19_LegendShape ==
    probe.fn = "getQuadrantLegend" =>
        IF QUADRANT_DATA = << >>
        THEN IsSyntheticLegend(probe.out)
        ELSE IsDatasetLegend(probe.out, QUADRANT_DATA)

\* the legend asked for after the load of the dataset settled without entries
C19_Witness ==
    /\ probe.fn = "getQuadrantLegend"
    /\ quadrantsPromise = "settled"
    /\ QUADRANT_DATA = << >>
    /\ Len(probe.out) = 16
    /\ probe.out[16].number = JsNum(N(16))

\* the id is neither a finite number nor a string that Number() maps to one
IdNotNumeric(entry) ==
    /\ ~(entry.id.t = "number" /\ IsFinite(NumOf(entry.id)))
    /\ ~(entry.id.t = "string" /\ IsFinite(StrToNum(entry.id.s)))

\* a declared two-element range holds a value that is not a finite number
RangeNotNumeric(range) ==
    /\ range.isArray
    /\ range.length = 2
    /\ \/ ~(range.min.t = "number" /\ IsFinite(NumOf(range.min)))
       \/ ~(range.max.t = "number" /\ IsFinite(NumOf(range.max)))

BoundsNotNumeric(entry) ==
    /\ entry.bounds.t = "object"
    /\ \/ RangeNotNumeric(entry.bounds.x)
       \/ RangeNotNumeric(entry.bounds.y)
       \/ RangeNotNumeric(entry.bounds.z)

\* the declared range is absent, or holds two finite numbers around the value
Contains(range, value) ==
    \/ ~range.isArray
    \/ range.length < 2
    \/ /\ ~RangeNotNumeric(range)
       /\ value.t = "number"
       /\ \/ JLe(NumOf(range.min), NumOf(value)) /\ JLe(NumOf(value), NumOf(range.max))
          \/ JLe(NumOf(range.max), NumOf(value)) /\ JLe(NumOf(value), NumOf(range.min))

\* a coordinate is supplied and every declared range of the entry contains it
SelectableByBounds(entry, vector) ==
    /\ vector.t = "object"
    /\ entry.t = "object"
    /\ Contains(entry.bounds.x, vector.x)
    /\ Contains(entry.bounds.y, vector.y)
    /\ Contains(entry.bounds.z, vector.z)

\* the entry at position k is where the positional fallback looks
IsPositional(k, index) == k = index + 1 \/ k = 1

\* C20: an entry whose id is not a finite number and not a string coercible to
\* one is never returned for its id, and an entry with a declared two-element
\* range holding a non-numeric or non-finite value is never returned for its
\* bounds: when such an entry is returned, it is through the next fallback.
C20_CoercionFailureIsNoMatch ==
    (probe.fn = "getQuadrantDetails" /\ probe.out.t = "object") =>
        LET k == probe.out.pos
            entry == QUADRANT_DATA[k]
        IN  /\ IdNotNumeric(entry) =>
                 \/ SelectableByBounds(entry, probe.arg.vector)
                 \/ IsPositional(k, probe.arg.index)
            /\ BoundsNotNumeric(entry) =>
                 \/ HasId(entry, probe.arg.index + 1)
                 \/ IsPositional(k, probe.arg.index)

\* index 0: the first entry declares a range of numeric strings and is passed
\* over, the second has the id "abc" and is returned for its bounds
C20_Witness ==
    /\ probe.fn = "getQuadrantDetails"
    /\ probe.arg.index = 0
    /\ probe.arg.vector = Vector(N(0), N(0), N(0))
    /\ Len(QUADRANT_DATA) = 2
    /\ BoundsNotNumeric(QUADRANT_DATA[1])
    /\ IdNotNumeric(QUADRANT_DATA[1])
    /\ QUADRANT_DATA[2].id = JsStr("abc")
    /\ probe.out.t = "object"
    /\ probe.out.pos = 2

----------------------------------------------------------------------------
(* Properties of the palette lookup (FnSpec) *)

\* palette[min(max(index, 0), 15)] for a 0-based index
ClampedColor(index) ==
    QUADRANT_COLORS[(IF index < 0 THEN 0 ELSE IF index > 15 THEN 15 ELSE index) + 1]

\* C21: for every integer index the palette lookup returns the palette entry
\* at the index clamped to the nearest valid bound, for colorFromIndex with
\* negative indices and indices above 15, and for the colour getQuadrantLegend
\* gives the entry at position p of a dataset with more than 16 entries.
C21_PaletteLookupClamps ==
    /\ probe.fn = "colorFromIndex" => probe.out = ClampedColor(probe.arg.index)
    /\ (probe.fn = "getQuadrantLegend" /\ Len(probe.arg.data) > 16) =>
          \A p \in 1..Len(probe.out) : probe.out[p].color = ClampedColor(p - 1)

----------------------------------------------------------------------------
(* Properties of the session: resets, cache and navigation (Spec) *)

\* the quiz fields right after the step are those of a fresh quiz
QuizIsReset ==
    /\ score' = ZeroScore
    /\ answers' = << >>
    /\ idx' = 0
    /\ resultSaved' = FALSE

\* C22: after every language selection, every restart and every confirmation
\* of the profile form the running score is (0, 0, 0), the answer history is
\* empty, the question index is 0 and resultSaved is false (a confirmation
\* that finds an empty cached set goes on to the result in the same task and
\* saves it); and whenever the profile form gives way to question 1 of a quiz,
\* the running score holds no contribution of an earlier run.
C22_QuizStartsFromZero ==
    [][/\ (SelectLanguage \/ Restart \/ ConfirmProfileFetch) => QuizIsReset
       /\ ConfirmProfileCached =>
            /\ score' = ZeroScore
            /\ answers' = << >>
            /\ idx' = 0
            /\ resultSaved' = FALSE \/ questions' = << >>
       /\ (dom.view = "profile" /\ dom'.view = "quiz" /\ idx' = 0) => score' = ZeroScore]_vars

\* what a successful load of the questions file of lang stores
LoadedSet(lang) ==
    LET data == Sources[source][lang]
        normalized == IF data.isArray
                      THEN [k \in 1..Len(data.items) |-> normalizeQuestionEntry(data.items[k])]
                      ELSE << >>
    IN  [cached |-> TRUE, questions |-> normalized, totals |-> computeWeightTotals(normalized)]

\* #goProfile onclick with a complete form: the one caller of loadQuestions()
ConfirmProfile == ConfirmProfileCached \/ ConfirmProfileFetch

\* C23: once loadQuestions has completed successfully for a language, every
\* later loadQuestions call for it issues no fetch and sets state.questions
\* and state.weightTotals to the question set and totals of the first load,
\* which the cache keeps unchanged; a load that failed is not cached, so the
\* next call for the language fetches again.
C23_LoadsAreCachedPerLanguage ==
    /\ [](\A l \in Langs : questionsByLang[l].cached => questionsByLang[l] = LoadedSet(l))
    /\ [][/\ \A l \in Langs : questionsByLang[l].cached => questionsByLang'[l] = questionsByLang[l]
          /\ (ConfirmProfile /\ questionsByLang[language].cached) =>
                /\ loads' = loads
                /\ questions' = LoadedSet(language).questions
                /\ weightTotals' = LoadedSet(language).totals
          /\ LoadQuestionsFailed => questionsByLang' = questionsByLang
          /\ (ConfirmProfile /\ ~questionsByLang[language].cached) =>
                loads'[language] = loads[language] + 1]_vars

\* the profile form confirmed a second time for a language whose questions
\* are cached: the quiz shows question 1 of the cached set with its totals
C23_Witness ==
    /\ dom.view = "quiz"
    /\ language = "it"
    /\ questionsByLang["it"].cached
    /\ loads = NoLoads
    /\ resultSaved = FALSE
    /\ QUADRANT_DATA # << >>
    /\ questions = LoadedSet("it").questions
    /\ Len(questions) = 2
    /\ weightTotals = LoadedSet("it").totals
    /\ weightTotals # ZeroWeights

----------------------------------------------------------------------------
(* The review form of the result view (ReviewSpec) *)

\* submitReview() calls that may be suspended together
MaxSubmits == 2

\* what getUserIP() resolves to: the string s, and parts = s.split('.') taken
\* through parseInt
IpValue(t, s, parts) == [t |-> t, s |-> s, parts |-> parts]

\* the fetch or its JSON failed (null), the body has no ip (undefined), and
\* address strings
IpValues ==
    {IpValue("null", "", << >>),
     IpValue("undefined", "", << >>),
     IpValue("string", "", <<0>>),
     IpValue("string", "10.0.0.1", <<10, 0, 0, 1>>),
     IpValue("string", "172.16.0.1", <<172, 16, 0, 1>>),
     IpValue("string", "172.31.9.9", <<172, 31, 9, 9>>),
     IpValue("string", "172.32.0.1", <<172, 32, 0, 1>>),
     IpValue("string", "192.168.1.1", <<192, 168, 1, 1>>),
     IpValue("string", "127.0.0.1", <<127, 0, 0, 1>>),
     IpValue("string", "8.8.8.8", <<8, 8, 8, 8>>),
     IpValue("string", "8.8.8", <<8, 8, 8>>),
     IpValue("string", "2001:db8::1", <<2001>>)}

\* the names a user may confirm in the welcome view
Names == {"Ada", "ada", "Bob"}

\* what the textarea #reviewInput may hold
ReviewTexts == {"", " ", "Bello"}

isPrivateIP(ip) ==
    IF ip.t # "string" \/ ip.s = "" THEN TRUE
    ELSE IF Len(ip.parts) # 4 THEN TRUE
    ELSE \/ ip.parts[1] = 10
         \/ (ip.parts[1] = 172 /\ ip.parts[2] >= 16 /\ ip.parts[2] <= 31)
         \/ (ip.parts[1] = 192 /\ ip.parts[2] = 168)
         \/ ip.parts[1] = 127

\* the test of reviews.some with the names compared as they are
AlreadyReviewedCaseSensitive(list, userName, ip) ==
    \E k \in 1..Len(list) : list[k].ip = ip.s \/ list[k].name = userName

\* reviews.some(r => r.ip === ip || r.name.toLowerCase() === state.name.toLowerCase())
AlreadyReviewed(list, userName, ip) ==
    \E k \in 1..Len(list) :
        list[k].ip = ip.s \/ ToLowerCase(list[k].name) = ToLowerCase(userName)

\* submitReview after `await getUserIP()`: whether the review is saved
ReviewAccepted(list, userName, ip) ==
    /\ ip.t = "string"
    /\ ip.s # ""
    /\ ~isPrivateIP(ip)
    /\ ~AlreadyReviewed(list, userName, ip)

\* saveReview(review); the date of the review is left out
saveReview(list, userName, ip, message) ==
    Append(list, [name |-> userName, ip |-> ip.s, message |-> message])

\* the user restarts, chooses a language, confirms the name v and goes through
\* the quiz: the result view is rendered anew, with state.name = v
ReachResult ==
    /\ dom.view # "result"
    /\ \E v \in Names :
         /\ name' = v
         /\ dom' = Dom("result")
         /\ reviewForm' = [reviewForm EXCEPT !.disabled = FALSE]
    /\ UNCHANGED <<step, language, idx, score, questions, questionsByLang, weightTotals,
                   answers, resultSaved, loads, source, quadrantsPromise, QUADRANT_DATA,
                   waiting, thrown, reviews, gate, quadrantFetches,
                   resultHistory, profile, filters, probe>>

\* #restartTest onclick, as far as the review form is concerned
RestartFromResult ==
    /\ dom.view = "result"
    /\ name' = ""
    /\ dom' = Dom("language")
    /\ UNCHANGED <<step, language, idx, score, questions, questionsByLang, weightTotals,
                   answers, resultSaved, loads, source, quadrantsPromise, QUADRANT_DATA,
                   waiting, thrown, reviews, reviewForm, gate, quadrantFetches,
                   resultHistory, profile, filters, probe>>

\* #submitReview onclick: submitReview() up to `await getUserIP()`
SubmitReviewClicked ==
    /\ dom.view = "result"
    /\ ~reviewForm.disabled
    /\ Len(reviewForm.pending) < MaxSubmits
    /\ \E text \in ReviewTexts :
         reviewForm' = IF StrTrim(text) = "" THEN reviewForm
                       ELSE [reviewForm EXCEPT !.pending = Append(@, StrTrim(text))]
    /\ UNCHANGED <<step, language, idx, score, questions, questionsByLang, weightTotals,
                   answers, resultSaved, dom, loads, source, quadrantsPromise, QUADRANT_DATA,
                   waiting, thrown, name, reviews, gate, quadrantFetches,
                   resultHistory, profile, filters, probe>>

\* the sequence without its element i
Without(seq, i) == [k \in 1..(Len(seq) - 1) |-> IF k < i THEN seq[k] ELSE seq[k + 1]]

\* getUserIP() of a suspended submitReview() resolves and the call runs to its
\* end; after a save the button of the result view on screen is disabled, and
\* document.getElementById('submitReview') is null in any other view
SubmitReviewResumed ==
    \E i \in 1..Len(reviewForm.pending), ip \in IpValues :
        LET accepted == ReviewAccepted(reviews, name, ip)
        IN  /\ reviews' = IF accepted
                          THEN saveReview(reviews, name, ip, reviewForm.pending[i])
                          ELSE reviews
            /\ reviewForm' = [disabled |-> reviewForm.disabled \/ (accepted /\ dom.view = "result"),
                              pending |-> Without(reviewForm.pending, i)]
            /\ thrown' = (thrown \/ (accepted /\ dom.view # "result"))
            /\ UNCHANGED <<step, language, idx, score, questions, questionsByLang, weightTotals,
                           answers, resultSaved, dom, loads, source, quadrantsPromise,
                           QUADRANT_DATA, waiting, name, gate, quadrantFetches,
                   resultHistory, profile, filters, probe>>

\* the result view on screen for a user who confirmed a name, no review stored
ReviewInit ==
    /\ step = 4
    /\ language = "it"
    /\ idx = 0
    /\ score = ZeroScore
    /\ questions = << >>
    /\ questionsByLang = [l \in Langs |-> NoCache]
    /\ weightTotals = ZeroWeights
    /\ answers = << >>
    /\ resultSaved = TRUE
    /\ dom = Dom("result")
    /\ loads = NoLoads
    /\ source = 1
    /\ quadrantsPromise = "settled"
    /\ QUADRANT_DATA = << >>
    /\ waiting = << >>
    /\ thrown = FALSE
    /\ name \in Names
    /\ reviews = << >>
    /\ reviewForm = NoReviewForm
    /\ gate = GateOpened
    /\ quadrantFetches = 1
    /\ resultHistory = NoHistory
    /\ profile = NoProfile
    /\ filters = AllFilters
    /\ probe = Idle

ReviewNext ==
    \/ ReachResult
    \/ RestartFromResult
    \/ SubmitReviewClicked
    \/ SubmitReviewResumed

ReviewSpec == ReviewInit /\ [][ReviewNext]_vars

----------------------------------------------------------------------------
(* Properties of the review form (ReviewSpec) *)

\* 10.x.x.x, 172.16-31.x.x, 192.168.x.x and 127.x.x.x
InPrivateRange(a, b) ==
    a \in {10, 127} \/ (a = 172 /\ b \in 16..31) \/ (a = 192 /\ b = 168)

\* the value getUserIP() gave for the stored address string
IpOf(str) == CHOOSE ip \in IpValues : ip.t = "string" /\ ip.s = str

\* C24: the stored review list never holds two reviews with the same IP or
\* with the same name compared case-insensitively, whatever the interleaving
\* of the submitReview calls of a page, and no review is stored with an empty
\* text or with an IP that is undetectable or private.
C24_OneReviewPerNameAndIp ==
    /\ \A i, j \in 1..Len(reviews) :
          i # j => /\ reviews[i].ip # reviews[j].ip
                   /\ ToLowerCase(reviews[i].name) # ToLowerCase(reviews[j].name)
    /\ \A i \in 1..Len(reviews) :
          /\ reviews[i].message # ""
          /\ reviews[i].message # " "
          /\ reviews[i].ip # ""
          /\ Len(IpOf(reviews[i].ip).parts) = 4
          /\ ~InPrivateRange(IpOf(reviews[i].ip).parts[1], IpOf(reviews[i].ip).parts[2])

\* two reviews stored from two addresses while a third submission, clicked
\* before the second was stored, still waits for its address
C24_Witness ==
    /\ Len(reviews) = 2
    /\ reviews[1].name = "Ada"
    /\ reviews[2].name = "Bob"
    /\ reviews[1].ip = "8.8.8.8"
    /\ reviews[2].ip = "172.32.0.1"
    /\ Len(reviewForm.pending) = 1

----------------------------------------------------------------------------
(* Properties of the quiz view (Spec) *)

\* C25: the jump-to-end button is rendered on question idx of a set of N
\* questions only past the midpoint, that is only when idx + 1 > N / 2; it is
\* not rendered on the first question of a set of two or more questions.
C25_JumpOnlyPastMidpoint ==
    [][(dom'.view = "quiz" /\ dom'.skip /\ dom' # dom /\ ~thrown') =>
          /\ 2 * (idx' + 1) > Len(questions')
          /\ (Len(questions') >= 2 => idx' # 0)]_vars

\* the view that the handler left: rendered, or suspended until the quadrant
\* data has settled
ResultViewEntered ==
    /\ step' = 4
    /\ \/ dom'.view = "result"
       \/ (waiting' # << >> /\ waiting'[Len(waiting')] = "result")

QuestionRendered(i) ==
    /\ idx' = i
    /\ dom'.view = "quiz"
    /\ dom'.q = QuestionAt(questions', i)

\* C26: an answer or a skip on question i moves to question i + 1 when i is
\* not the last index and to the result view when it is; back on question
\* i > 0 moves to question i - 1 and back on question 0 to the profile view;
\* whenever a question is rendered 0 <= idx < number of questions; a skip
\* changes neither the running score nor any answer slot.
C26_QuizNavigation ==
    [][/\ ((Answer \/ Skip) /\ idx < Len(questions) - 1) => QuestionRendered(idx + 1)
       /\ ((Answer \/ Skip) /\ idx >= Len(questions) - 1) => ResultViewEntered
       /\ (Back /\ idx > 0) => QuestionRendered(idx - 1)
       /\ (Back /\ idx = 0) => dom'.view = "profile"
       /\ (dom'.view = "quiz" /\ dom' # dom) => (0 <= idx' /\ idx' < Len(questions'))
       /\ Skip => (score' = score /\ answers' = answers)]_vars

\* the handler of forward action a: #nextQuiz for 0, the button of
\* ANSWER_VALUES[a] otherwise
forward(s, a) ==
    IF a = 0 THEN stepForward(s)
    ELSE stepForward(recordAnswer(s, StrToNum(AnswerAttr[a])))

\* the result view is entered by s, on screen or waiting for the quadrant data
InResultView(s) ==
    /\ s.step = 4
    /\ \/ s.dom.view = "result"
       \/ (s.waiting # << >> /\ s.waiting[Len(s.waiting)] = "result")

\* every run of n forward actions from s ends in the result view, and none
\* enters it earlier
RECURSIVE RunsEnd(_, _)
RunsEnd(s, n) ==
    IF n = 0 THEN InResultView(s)
    ELSE /\ s.step = 3
         /\ \A a \in 0..Len(ANSWER_VALUES) : RunsEnd(forward(s, a), n - 1)

\* a question has just been rendered for the current index
QuestionOnScreen ==
    /\ step = 3
    /\ dom.view = "quiz"
    /\ idx < Len(questions)
    /\ dom.q = QuestionAt(questions, idx)

\* C27: every forward action (answer or skip) either increases the question
\* index by one, leaving the question set as it is, or ends the quiz, and it
\* ends the quiz exactly when the index is the last one; from question i of N
\* every run of N - i consecutive forward actions reaches the result view.
C27_ForwardAdvancesOrEnds ==
    /\ [](QuestionOnScreen => RunsEnd(Cur, Len(questions) - idx))
    /\ [][(Answer \/ Skip) =>
          IF idx < Len(questions) - 1
          THEN idx' = idx + 1 /\ questions' = questions /\ step' = 3
          ELSE idx' = idx /\ ResultViewEntered]_vars

\* both questions of a set of two answered, the result on screen
C27_Witness ==
    /\ step = 4
    /\ dom.view = "result"
    /\ Len(questions) = 2
    /\ idx = 1
    /\ Len(answers) = 2
    /\ At(answers, 0).t = "number"
    /\ At(answers, 1).t = "number"
    /\ ~thrown

\* a load settles, or a cached set is taken, and the quiz is entered
QuizEntered == LoadQuestionsDone \/ LoadQuestionsFailed \/ ConfirmProfileCached

\* C28: when the loaded question set is empty (the fetch failed or the data is
\* not an array), entering the quiz goes to the result view and renders no
\* question, and the result rendered for an empty set has normalized
\* coordinate (0, 0, 0) and quadrant number 1.
C28_EmptySetGoesToResult ==
    /\ [][(QuizEntered /\ questions' = << >>) =>
             /\ thrown' = thrown
             /\ ResultViewEntered
             /\ dom'.view = "result" \/ dom' = dom]_vars
    /\ []((dom.view = "result" /\ questions = << >>) =>
             /\ dom.result.normalized = [x |-> N(0), y |-> N(0), z |-> N(0)]
             /\ dom.result.quadrant16 = 1
             /\ dom.result.phiSector = 0
             /\ dom.result.thetaSector = 0)

\* the question file could not be fetched: the result view is on screen with
\* no question set, no answer and nothing cached
C28_Witness ==
    /\ dom.view = "result"
    /\ step = 4
    /\ questions = << >>
    /\ answers = << >>
    /\ loads = NoLoads
    /\ ~questionsByLang[language].cached
    /\ QUADRANT_DATA # << >>

\* the sum over questions[1..n] of |weights[axis]|
RECURSIVE AbsWeightSum(_, _, _)
AbsWeightSum(qs, axis, n) ==
    IF n = 0 THEN N(0)
    ELSE JAdd(AbsWeightSum(qs, axis, n - 1), JAbs(qs[n].weights[axis]))

\* C29: whenever a question, the result view or the insights view is rendered,
\* weightTotals[axis] is the sum over state.questions of the absolute
\* normalized weight on that axis, for each axis; answering, skipping and
\* going back never change weightTotals.
C29_TotalsMatchQuestions ==
    [][/\ (dom' # dom /\ dom'.view \in {"quiz", "result", "insights"}) =>
             \A a \in AxisSet : weightTotals'[a] = AbsWeightSum(questions', a, Len(questions'))
       /\ (Answer \/ Skip \/ Back) => weightTotals' = weightTotals]_vars

\* C30: at most one loadQuestions() call is unresolved at any time, and while
\* one is unresolved the user is still on the profile view that started it:
\* no second load is started and the view is not left, so a load that
\* completes belongs to the session on screen.
C30_OneLoadInFlight ==
    InFlight(loads) > 0 => (InFlight(loads) = 1 /\ dom.view = "profile" /\ step = 2)

----------------------------------------------------------------------------
(* Properties of the asynchronous loads (Spec) *)

\* C31: applyScore is never called while a loadQuestions() call is unresolved:
\* every answer, and every back that reverts an answer, happens with no load
\* in flight, and an answer scores the question state.questions holds at the
\* current index.
C31_NoScoringDuringLoad ==
    [][/\ (Answer \/ (Back /\ score' # score)) => InFlight(loads) = 0
       /\ Answer => dom.q = QuestionAt(questions, idx)]_vars

\* what QUADRANT_DATA becomes when the fetch ends on file
DatasetOf(file) == IF file.ok /\ file.isArray THEN file.items ELSE << >>

\* C32: at most one fetch of quadrants.json is issued in a session, whatever
\* the number and order of the loadQuadrants and ensureQuadrantsLoaded calls
\* (startup, result renders, insights renders) and whether the fetch succeeds
\* or fails; when it settles QUADRANT_DATA is the fetched array, or the empty
\* array on failure or non-array data, and stays so.
C32_OneQuadrantFetch ==
    /\ [](quadrantFetches <= 1)
    /\ [](quadrantsPromise = "null" <=> quadrantFetches = 0)
    /\ [][(quadrantsPromise # "settled" /\ quadrantsPromise' = "settled") =>
             \E file \in SessionQuadrantFiles : QUADRANT_DATA' = DatasetOf(file)]_vars
    /\ [][quadrantsPromise = "settled" =>
             (quadrantsPromise' = "settled" /\ QUADRANT_DATA' = QUADRANT_DATA)]_vars

\* behind the gate opened with the magic word, the insights view rendered
\* from the fetched dataset after the result view, one fetch issued
C32_Witness ==
    /\ gate.unlocked
    /\ quadrantFetches = 1
    /\ quadrantsPromise = "settled"
    /\ QUADRANT_DATA # << >>
    /\ dom.view = "insights"
    /\ resultSaved

(***************************************************************************)
(* Properties of the result history (HistorySpec)                          *)
(***************************************************************************)

\* the datasets the load of a session can settle to, and the one before it
SessionDatasets == {DatasetOf(file) : file \in SessionQuadrantFiles} \cup {<< >>}

\* a step of a handler that pushes a record onto the history
Persists == Len(resultHistory'.records) = Len(resultHistory.records) + 1

\* C33 as stated: every evaluation of the quadrant resolver, the one made by
\* computeResults when the result is persisted included, happens after the
\* load of the quadrant dataset has settled
C33_ResolverAfterSettle ==
    /\ [](dom.view \in {"result", "insights"} => quadrantsPromise = "settled")
    /\ [][Persists => quadrantsPromise = "settled"]_vars

\* C33 amended: every evaluation of the resolver whose value is rendered
\* happens after the load has settled; the one made when the result is
\* persisted may run while the load is in flight, and the record it persists
\* is the same for every dataset
C33_RenderedAfterSettle ==
    /\ [](dom.view \in {"result", "insights"} => quadrantsPromise = "settled")
    /\ [][Persists =>
            \A data \in SessionDatasets :
               resultHistory'.records[Len(resultHistory'.records)] =
                  HistoryRecord(Cur', computeResults([Cur' EXCEPT !.QUADRANT_DATA = data]))]_vars

C33_Witness ==
    /\ dom.view = "result"
    /\ quadrantsPromise = "settled"
    /\ QUADRANT_DATA # << >>
    /\ Len(resultHistory.records) = 1
    /\ dom.result.quadrantInfo # NoDetails

LastRecord == resultHistory.records[Len(resultHistory.records)]

\* C35: once the result is persisted, no user action changes the score, the
\* answers or the totals before the next reset, and the result and insights
\* views show the coordinate and the quadrant of the persisted record
C35_FrozenAfterPersist ==
    /\ [][(/\ resultSaved /\ resultSaved'
            /\ ~(ConfirmProfileCached \/ LoadQuestionsDone \/ LoadQuestionsFailed)) =>
             (score' = score /\ answers' = answers /\ weightTotals' = weightTotals)]_vars
    /\ []((dom.view \in {"result", "insights"} /\ resultSaved) =>
             /\ dom.result.normalized = LastRecord.normalized
             /\ dom.result.quadrant16 = LastRecord.quadrant)

(***************************************************************************)
(* Properties of the running score (QuizSpec)                              *)
(***************************************************************************)

\* a session against the server whose first Italian question spreads its
\* weight over the three axes
QuizInit ==
    /\ step = 0
    /\ language = "it"
    /\ idx = 0
    /\ score = ZeroScore
    /\ questions = << >>
    /\ questionsByLang = [l \in Langs |-> NoCache]
    /\ weightTotals = ZeroWeights
    /\ answers = << >>
    /\ resultSaved = FALSE
    /\ dom = Dom("language")
    /\ loads = NoLoads
    /\ source = Len(Sources)
    /\ quadrantsPromise = "pending"
    /\ QUADRANT_DATA = << >>
    /\ waiting = << >>
    /\ thrown = FALSE
    /\ name = ""
    /\ reviews = << >>
    /\ reviewForm = NoReviewForm
    /\ gate = GateOpened
    /\ quadrantFetches = 1
    /\ resultHistory = NoHistory
    /\ profile = NoProfile
    /\ filters = AllFilters
    /\ probe = Idle

QuizSpec == QuizInit /\ [][Next]_vars

\* C36: in every quiz state the absolute value of the running score on each
\* axis is at most the total weight of the axis, so that the clamp of
\* getNormalizedScores changes no value
C36_ScoreWithinTotals ==
    []((dom.view = "quiz" /\ waiting = << >>) =>
          /\ JLe(JAbs(score.x), weightTotals["economia"])
          /\ JLe(JAbs(score.y), weightTotals["dirittocivilismo"])
          /\ JLe(JAbs(score.z), weightTotals["establishment"]))

(***************************************************************************)
(* Properties of the access gate (StartSpec)                               *)
(***************************************************************************)

\* what verify() compares with the magic word
Normalised(value) == ToLowerCase(StrTrim(value))

\* C37: the success callback is called at most once; when the elements of the
\* gate are in the page, only by a submission whose trimmed, lower-cased
\* value is the magic word; a submission after unlocking changes nothing
C37_StartedOnceByMagicWord ==
    /\ [](gate.started <= 1)
    /\ [](gate.present => (gate.started = 1 <=> gate.unlocked))
    /\ [][gate.started' # gate.started =>
             /\ gate.started' = gate.started + 1
             /\ ~gate.unlocked /\ ~gate.disabled
             /\ Normalised(gate'.submitted) = MAGIC_WORD]_vars
    /\ [](gate.unlocked => \A value \in GateValues : verify(Cur, value) = Cur)

C37_Witness ==
    /\ gate.unlocked
    /\ gate.started = 1
    /\ gate.submitted = " Mellon "
    /\ gate.attempts = 2
    /\ dom.view = "quiz"

\* C38: the wrong attempts never exceed MAX_ACCESS_ATTEMPTS; only a
\* submission that is neither empty nor the magic word is counted; the third
\* one disables input and button; a locked gate never changes again and has
\* not started the application
C38_LockOutAfterThreeAttempts ==
    /\ [](gate.attempts <= MAX_ACCESS_ATTEMPTS)
    /\ [][gate.attempts' # gate.attempts =>
             /\ gate.attempts' = gate.attempts + 1
             /\ Normalised(gate'.submitted) \notin {"", MAGIC_WORD}]_vars
    /\ [](gate.disabled <=> gate.attempts = MAX_ACCESS_ATTEMPTS)
    /\ [][gate.disabled => gate' = gate]_vars
    /\ [](gate.disabled => (~gate.unlocked /\ gate.started = 0 /\ dom.view = "gate"))

C38_Witness ==
    /\ gate.disabled
    /\ gate.attempts = MAX_ACCESS_ATTEMPTS
    /\ gate.submitted = "amico"
    /\ ~gate.unlocked

(***************************************************************************)
(* Properties of the insights filters (HistorySpec)                        *)
(***************************************************************************)

\* C39: in the insights view, selecting a value in the profession or in the
\* education filter, 'all' included, renders the view with that filter equal
\* to the selected value
C39_FilterShowsSelection ==
    [](dom.view = "insights" =>
          /\ \A value \in {"all", "unspecified", normalizeProfession(profile.profession)} :
                viewInsights([Cur EXCEPT !.filters.profession = value]).dom.selected.profession
                   = value
          /\ \A value \in {"all", "laurea", "diploma"} :
                viewInsights([Cur EXCEPT !.filters.education = value]).dom.selected.education
                   = value)

(***************************************************************************)
(* The synthetic legend and the classifier (FnSpec)                        *)
(***************************************************************************)

\* the entry of the synthetic legend for the 0-based index k
BaseLegendEntry(k) == BASE_QUADRANT_LEGEND[k + 1]

\* C40: for every vector, the entry of the synthetic legend numbered
\* index + 1 carries the descriptor and the colour quadrantFromVector returns,
\* and floor(index / 4), index mod 4 are the two sectors of the vector
C40_LegendAgreesWithClassifier ==
    [](probe.fn = "quadrantFromVector" =>
          /\ probe.out.index \in 0..15
          /\ BaseLegendEntry(probe.out.index).number = JsNum(N(probe.out.index + 1))
          /\ BaseLegendEntry(probe.out.index).descriptor = JsStr(probe.out.descriptor)
          /\ BaseLegendEntry(probe.out.index).color = probe.out.color
          /\ probe.out.index \div 4 = probe.out.phiSector
          /\ probe.out.index % 4 = probe.out.thetaSector)

C40_Witness ==
    /\ probe.fn = "quadrantFromVector"
    /\ probe.out.index = 9
    /\ probe.out.phiSector = 2
    /\ probe.out.thetaSector = 1
    /\ BaseLegendEntry(9).number = JsNum(N(10))

====
